---- MODULE Spec2Model ----
(***************************************************************************)
(* Model of intake-bluesky: the run reconstruction engine (BlueskyRun),    *)
(* the external-data fill loop (BlueskyRun._fill) and the time-ordered     *)
(* interlacer (interlace_event_pages, interlace_event_page_chunks).        *)
(*                                                                         *)
(* A run is backed by the DocumentCache of BlueskyRunFromGenerator: the    *)
(* accessors hand out the cached documents themselves, so what a read      *)
(* changes in place (a filled event) is seen by the reads that follow.     *)
(***************************************************************************)
EXTENDS Naturals, Integers, Sequences, FiniteSets, TLC

VARIABLES
    document_cache,   \* DocumentCache: descriptors, event_pages, stop_doc
    filler,           \* the Filler's caches: resource_cache, datum_cache
    run,              \* what BlueskyRun._load memoizes on the run
    last              \* the last operation and what it returned

(***************************************************************************)
(* Bounds of the model.                                                    *)
(***************************************************************************)
\* BlueskyRun.PARTITION_SIZE is 100 in the source; the model scales the
\* page size down so that runs longer than one partition are explored.
PARTITION_SIZE == 4
\* largest number of events a run receives (over all its descriptors)
MaxEvents == 2

\* the merges: at most MaxSources sources of at most MaxRows rows each
MaxSources == 2

MaxRows == 2

\* the streams: at most MaxStreamEvents events a descriptor
MaxStreamEvents == 2

\* a served run: at most MaxPartitions partitions, each of at most
\* MaxPartitionDocs documents
MaxPartitions == 2
MaxPartitionDocs == 2

\* at most MaxDirectReads calls of _get_partition besides those of the
\* generator
MaxDirectReads == 1

\* a run_start collection of at most MaxRuns runs; at most MaxSearches
\* searches, one of the catalog of another
MaxRuns == 2
MaxSearches == 2

\* a run of at most MaxDescriptors descriptors
MaxDescriptors == 3

(***************************************************************************)
(* Small helpers.                                                          *)
(***************************************************************************)
Min(a, b) == IF a < b THEN a ELSE b

Max(a, b) == IF a > b THEN a ELSE b

Range(s) == {s[k] : k \in DOMAIN s}

RECURSIVE Concat(_)
\* itertools.chain / nested "for" over a sequence of sequences
Concat(ss) == IF ss = <<>> THEN <<>> ELSE Head(ss) \o Concat(Tail(ss))

RECURSIVE SumSeq(_)
SumSeq(s) == IF s = <<>> THEN 0 ELSE Head(s) + SumSeq(Tail(s))

\* numpy.ceil(count / size) for positive integers
CeilDiv(count, size) == (count + size - 1) \div size

\* itertools.islice(s, start, stop): the items of s at the 0-based
\* positions start <= k < stop
islice(s, start, stop) ==
    IF start >= Min(stop, Len(s)) THEN <<>>
    ELSE SubSeq(s, start + 1, Min(stop, Len(s)))

(***************************************************************************)
(* Documents.  A datum id is the sequence of the pieces of its text, "/"   *)
(* being a piece of its own, so that '/' in datum_id and                   *)
(* datum_id.split('/', 1) are computed and not assumed.                    *)
(***************************************************************************)
StartUid == "s"

StopUid == "x"

\* the uids of the descriptors a run may receive, in the order it does
DescriptorUids == <<"d1", "d2">>

\* the uids of the events of each descriptor, in the order they arrive
EventUids == << <<"e11", "e12", "e13", "e14", "e15">>,
                <<"e21", "e22", "e23", "e24", "e25">> >>

\* the values of an event's 'time'
EventTimes == {1, 2}

\* the times of the rows handed to a merge
MergeTimes == {1, 2}

\* the values of chunk_size handed to interlace_event_page_chunks
ChunkSizes == {1, 2}

AllDescriptorUids == Range(DescriptorUids)

R1A == <<"r1", "/", "a">>
R1B == <<"r1", "/", "b", "/", "c">>
D3 == <<"d3">>
\* a datum id the store holds no datum for, its resource being known
R1Z == <<"r1", "/", "z">>

None == <<>>

\* DocumentCache.resources: the Resource documents received, by uid
resources == {"r1", "r2"}

\* DocumentCache.datum_pages_by_resource (a defaultdict(list)): the
\* 'datum_id' column of each DatumPage received for the resource
datum_pages_by_resource(resource_uid) ==
    CASE resource_uid = "r1" -> << <<R1A>>, <<R1B>> >>
      [] resource_uid = "r2" -> << <<D3>> >>
      [] OTHER -> <<>>

\* the keys of DocumentCache.resource_uid_by_datum_id
HeldDatumIds ==
    UNION {Range(Concat(datum_pages_by_resource(r))) : r \in resources}

\* DocumentCache.resource_uid_by_datum_id[datum_id]
resource_uid_by_datum_id(datum_id) ==
    CHOOSE r \in resources :
        datum_id \in Range(Concat(datum_pages_by_resource(r)))

\* '/' in datum_id
HasSlash(datum_id) == \E k \in DOMAIN datum_id : datum_id[k] = "/"

\* datum_id.split('/', 1)[0], for a datum id of this model whose text
\* before the first '/' is one piece
SplitFirst(datum_id) ==
    LET k == CHOOSE j \in DOMAIN datum_id :
                 /\ datum_id[j] = "/"
                 /\ \A h \in 1..(j - 1) : datum_id[h] # "/"
    IN  IF k = 2 THEN datum_id[1] ELSE ""

\* the 'data' columns the events of the model are built from: every field
\* is an external one and holds a datum id
EventData == { <<>>, <<R1A, R1B, D3>>, <<R1Z>> }

NewEvent(d, k, t, data) ==
    [uid |-> EventUids[d][k], time |-> t, descriptor |-> DescriptorUids[d],
     data |-> data, filled |-> [f \in DOMAIN data |-> FALSE], _id |-> "oid"]

(***************************************************************************)
(* Time-ordered interlacer.  The heap is the set of its entries            *)
(* (time, indx, val); heapq pops the smallest one in tuple order.          *)
(***************************************************************************)
\* flatten_event_page_gen(gen): the rows of the pages, page after page
flatten_event_page_gen(gen) == Concat(gen)

\* event_model.rechunk_event_pages(g, chunk_size): the rows of g in pages of
\* chunk_size rows, the last page holding what is left
rechunk_event_pages(g, chunk_size) ==
    LET rows == Concat(g)
    IN  [j \in 1..CeilDiv(Len(rows), chunk_size) |->
            SubSeq(rows, (j - 1) * chunk_size + 1,
                   Min(j * chunk_size, Len(rows)))]

\* the heap keyed by time alone, the later source first among equal times
HeapMin_ByTimeOnly(heap) ==
    CHOOSE e \in heap :
        \A o \in heap :
            \/ e.time < o.time
            \/ (e.time = o.time /\ e.indx >= o.indx)

\* heapq.heappop(heap): the entry that is least by (time, indx)
HeapMin(heap) ==
    CHOOSE e \in heap :
        \A o \in heap :
            \/ e.time < o.time
            \/ (e.time = o.time /\ e.indx <= o.indx)

\* every row the source has left pulled and pushed at once
safe_next_Greedy(iters, indx, pos, heap) ==
    [pos |-> [pos EXCEPT ![indx] = Len(iters[indx]) + 1],
     heap |-> heap \cup {[time |-> iters[indx][k].time, indx |-> indx,
                          val |-> iters[indx][k]] :
                             k \in pos[indx]..Len(iters[indx])}]

\* safe_next(indx) of interlace_event_pages: pull the next row of source
\* indx, if it has one, and push it
safe_next(iters, indx, pos, heap) ==
    IF pos[indx] > Len(iters[indx])
    THEN [pos |-> pos, heap |-> heap]
    ELSE LET val == iters[indx][pos[indx]]
         IN  [pos |-> [pos EXCEPT ![indx] = @ + 1],
              heap |-> heap \cup {[time |-> val.time, indx |-> indx,
                                   val |-> val]}]

RECURSIVE PrimeHeap(_, _, _, _)
\* for i in range(len(iters)): safe_next(i)
PrimeHeap(iters, i, pos, heap) ==
    IF i > Len(iters) THEN [pos |-> pos, heap |-> heap]
    ELSE LET s == safe_next(iters, i, pos, heap)
         IN  PrimeHeap(iters, i + 1, s.pos, s.heap)

\* safe_next(indx) of interlace_event_page_chunks: pull the next page of
\* source indx, if it has one, and push it keyed by val['time'][0]
safe_next_chunk(iters, indx, pos, heap) ==
    IF pos[indx] > Len(iters[indx])
    THEN [pos |-> pos, heap |-> heap]
    ELSE LET val == iters[indx][pos[indx]]
         IN  [pos |-> [pos EXCEPT ![indx] = @ + 1],
              heap |-> heap \cup {[time |-> val[1].time, indx |-> indx,
                                   val |-> val]}]

RECURSIVE PrimeChunkHeap(_, _, _, _)
\* for i in range(len(iters)): safe_next(i), in interlace_event_page_chunks
PrimeChunkHeap(iters, i, pos, heap) ==
    IF i > Len(iters) THEN [pos |-> pos, heap |-> heap]
    ELSE LET s == safe_next_chunk(iters, i, pos, heap)
         IN  PrimeChunkHeap(iters, i + 1, s.pos, s.heap)

RECURSIVE MergeLoop(_, _, _, _)
\* while heap: pop, yield, safe_next(indx)
MergeLoop(iters, pos, heap, out) ==
    IF heap = {} THEN out
    ELSE LET e == HeapMin(heap)
             s == safe_next(iters, e.indx, pos, heap \ {e})
         IN  MergeLoop(iters, s.pos, s.heap, Append(out, e.val))

\* interlace_event_pages(*gens), consumed to its end
interlace_event_pages(gens) ==
    LET iters == [i \in DOMAIN gens |-> flatten_event_page_gen(gens[i])]
        p == PrimeHeap(iters, 1, [i \in DOMAIN gens |-> 1], {})
    IN  MergeLoop(iters, p.pos, p.heap, <<>>)

(***************************************************************************)
(* The Filler (event_model.Filler, inplace=True), as BlueskyRun uses it.   *)
(***************************************************************************)
RECURSIVE FillerEventFrom(_, _, _)
\* filler('event', doc) from field k on: fields are visited in order; an
\* unfilled field whose datum id is not in the datum cache raises
\* UnresolvableForeignKeyError with key = that id, the fields before it
\* staying filled in place
FillerEventFrom(f, doc, k) ==
    IF k > Len(doc.data) THEN [key |-> None, doc |-> doc]
    ELSE IF doc.filled[k] THEN FillerEventFrom(f, doc, k + 1)
    ELSE IF doc.data[k] \notin f.datum_cache
         THEN [key |-> doc.data[k], doc |-> doc]
    ELSE FillerEventFrom(
             f,
             [doc EXCEPT !.data[k] = <<"value">> \o @, !.filled[k] = TRUE],
             k + 1)

FillerEvent(f, doc) == FillerEventFrom(f, doc, 1)

\* only the first datum page of the resource handed to the filler
FillerRegister_FirstPageOnly(f, resource_uid) ==
    [resource_cache |-> f.resource_cache \cup {resource_uid},
     datum_cache |-> f.datum_cache
                     \cup Range(Concat(islice(
                              datum_pages_by_resource(resource_uid), 0, 1)))]

\* filler('resource', resource) followed by filler('datum_page', page) for
\* every page of get_datum_pages(resource_uid)
FillerRegister(f, resource_uid) ==
    [resource_cache |-> f.resource_cache \cup {resource_uid},
     datum_cache |-> f.datum_cache
                     \cup Range(Concat(datum_pages_by_resource(resource_uid)))]

\* Python's recursion limit (1000 by default), scaled down: a re-entrant
\* _fill nested deeper than this ends in RecursionError
RecursionLimit == 6

\* the calls made on the accessors, in order
Call(fn, arg) == [fn |-> fn, arg |-> arg]

\* if '/' in datum_id: resource_uid, _ = datum_id.split('/', 1)
\* else: resource_uid = self._lookup_resource_for_datum(datum_id)
ResourceOf(datum_id) ==
    IF HasSlash(datum_id) THEN SplitFirst(datum_id)
    ELSE resource_uid_by_datum_id(datum_id)

\* lookup_resource_for_datum(datum_id) raises KeyError: the cache has no
\* datum of that id
LookupFails(datum_id) ==
    ~HasSlash(datum_id) /\ datum_id \notin HeldDatumIds

\* the accessor calls that resolving datum_id makes, as far as it gets
ResolveCalls(datum_id, resource_uid, lookup_failed, resource_missing) ==
    (IF HasSlash(datum_id) THEN <<>>
     ELSE <<Call("lookup_resource_for_datum", datum_id)>>)
    \o (IF lookup_failed THEN <<>>
        ELSE <<Call("get_resource", <<resource_uid>>)>>)
    \o (IF lookup_failed \/ resource_missing THEN <<>>
        ELSE <<Call("get_datum_pages", <<resource_uid>>)>>)

FillResult(status, r, f, calls, depth) ==
    [status |-> status, event |-> r.doc, filler |-> f, calls |-> calls,
     depth |-> depth]

RECURSIVE fill(_, _, _, _, _)
\* the except branch without the comparison with last_datum_id
fill_except_NoBail(f, r, last_datum_id, calls, depth) ==
    IF LookupFails(r.key)
    THEN FillResult("KeyError", r, f,
                    calls \o ResolveCalls(r.key, "", TRUE, TRUE), depth)
    ELSE IF ResourceOf(r.key) \notin resources
    THEN FillResult("KeyError", r, f,
                    calls \o ResolveCalls(r.key, ResourceOf(r.key), FALSE, TRUE),
                    depth)
    ELSE fill(FillerRegister(f, ResourceOf(r.key)), r.doc, r.key,
              calls \o ResolveCalls(r.key, ResourceOf(r.key), FALSE, FALSE),
              depth + 1)

\* the except branch of BlueskyRun._fill: the Filler raised
\* UnresolvableForeignKeyError with key = r.key
fill_except(f, r, last_datum_id, calls, depth) ==
    IF r.key = last_datum_id
    THEN FillResult("UnresolvableForeignKeyError", r, f, calls, depth)
    ELSE IF LookupFails(r.key)
    THEN FillResult("KeyError", r, f,
                    calls \o ResolveCalls(r.key, "", TRUE, TRUE), depth)
    ELSE IF ResourceOf(r.key) \notin resources
    THEN FillResult("KeyError", r, f,
                    calls \o ResolveCalls(r.key, ResourceOf(r.key), FALSE, TRUE),
                    depth)
    ELSE fill(FillerRegister(f, ResourceOf(r.key)), r.doc, r.key,
              calls \o ResolveCalls(r.key, ResourceOf(r.key), FALSE, FALSE),
              depth + 1)

\* the try branch of BlueskyRun._fill, r being what self.filler('event',
\* event) did
fill_try(f, r, last_datum_id, calls, depth) ==
    IF r.key = None THEN FillResult("ok", r, f, calls, depth)
    ELSE fill_except(f, r, last_datum_id, calls, depth)

\* BlueskyRun._fill(event, last_datum_id), depth counting the nesting
fill(f, event, last_datum_id, calls, depth) ==
    IF depth > RecursionLimit
    THEN [status |-> "RecursionError", event |-> event, filler |-> f,
          calls |-> calls, depth |-> depth]
    ELSE fill_try(f, FillerEvent(f, event), last_datum_id, calls, depth)

(***************************************************************************)
(* The accessors BlueskyRunFromGenerator builds over its DocumentCache dc. *)
(***************************************************************************)
\* a document that is absent (Python None)
NoDoc == [uid |-> "None"]

\* the documents the accessors hand out carry the store's '_id'
StartDoc == [uid |-> StartUid, _id |-> "oid"]

StopDoc == [uid |-> StopUid, _id |-> "oid"]

Item(name, doc) == [name |-> name, doc |-> doc]

\* doc.pop('_id', None)
Pop_id(doc) == [key \in DOMAIN doc \ {"_id"} |-> doc[key]]

\* the pop made on the events only
PopIds_EventsOnly(payload) ==
    [k \in DOMAIN payload |->
        IF payload[k].name = "event"
        THEN Item(payload[k].name, Pop_id(payload[k].doc))
        ELSE payload[k]]

\* for _, doc in payload: doc.pop('_id', None).  The documents of the store
\* are taken to have '_id' at every call, as those of an accessor that
\* queries MongoDB have; a cached document that lost it is popped to no
\* effect.
PopIds(payload) ==
    [k \in DOMAIN payload |-> Item(payload[k].name, Pop_id(payload[k].doc))]

\* get_event_count(descriptor_uid)
get_event_count(dc, descriptor_uid) ==
    LET pages == dc.event_pages[descriptor_uid]
    IN  SumSeq([k \in DOMAIN pages |-> Len(pages[k])])

\* the event with this uid replaced by doc where the cache holds it: the
\* effect of changing in place a document the cache handed out
StoreEvent(dc, doc) ==
    [dc EXCEPT !.event_pages =
        [d \in DOMAIN @ |->
            [p \in DOMAIN @[d] |->
                [k \in DOMAIN @[d][p] |->
                    IF @[d][p][k].uid = doc.uid THEN doc ELSE @[d][p][k]]]]]

(***************************************************************************)
(* BlueskyRun.                                                             *)
(***************************************************************************)
\* _load with the RunStop left out of the count
Load_StopNotCounted(dc) ==
    LET descriptor_uids == [k \in DOMAIN dc.descriptors |-> dc.descriptors[k].uid]
        count == 1 + Len(descriptor_uids)
                 + SumSeq([k \in DOMAIN descriptor_uids |->
                              get_event_count(dc, descriptor_uids[k])])
    IN  [_run_stop_doc |-> dc.stop_doc,
         _descriptors |-> dc.descriptors,
         _offset |-> Len(dc.descriptors) + 1,
         shape |-> <<count>>,
         npartitions |-> CeilDiv(count, PARTITION_SIZE)]

\* BlueskyRun._load: the fields it memoizes on the run
Load(dc) ==
    LET descriptor_uids == [k \in DOMAIN dc.descriptors |-> dc.descriptors[k].uid]
        count == 1 + Len(descriptor_uids)
                 + SumSeq([k \in DOMAIN descriptor_uids |->
                              get_event_count(dc, descriptor_uids[k])])
                 + (IF dc.stop_doc # NoDoc THEN 1 ELSE 0)
    IN  [_run_stop_doc |-> dc.stop_doc,
         _descriptors |-> dc.descriptors,
         _offset |-> Len(dc.descriptors) + 1,
         shape |-> <<count>>,
         npartitions |-> CeilDiv(count, PARTITION_SIZE)]

\* chain((('start', get_run_start()),), (('descriptor', doc) for doc in
\* self._descriptors))
HeaderChain(r) ==
    <<Item("start", StartDoc)>>
    \o [k \in DOMAIN r._descriptors |-> Item("descriptor", r._descriptors[k])]

\* interlace_event_pages(*(get_event_pages(descriptor_uid=uid) for uid in
\* descriptor_uids))
RunEvents(dc, r) ==
    interlace_event_pages(
        [k \in DOMAIN r._descriptors |-> dc.event_pages[r._descriptors[k].uid]])

RECURSIVE FillLoop(_, _, _, _, _, _)
\* one turn of the loop below, r being what self._fill(event) did
FillLoopStep(events, k, dc, f, payload, fills, r) ==
    IF r.status # "ok"
    THEN [status |-> r.status, document_cache |-> StoreEvent(dc, r.event),
          filler |-> r.filler, payload |-> payload, fills |-> fills]
    ELSE FillLoop(events, k + 1, StoreEvent(dc, r.event), r.filler,
                  Append(payload, Item("event", r.event)), fills)

\* what one self._fill(event) was given and did
FillRecord(event, f, r) ==
    [event |-> event, before |-> f, status |-> r.status, calls |-> r.calls,
     depth |-> r.depth]

\* self._fill(event) on an event, with its record
FillOne(f, event) == fill(f, event, None, <<>>, 1)

\* for event in events: self._fill(event); payload.append(('event', event))
FillLoop(events, k, dc, f, payload, fills) ==
    IF k > Len(events)
    THEN [status |-> "ok", document_cache |-> dc, filler |-> f,
          payload |-> payload, fills |-> fills]
    ELSE FillLoopStep(events, k, dc, f, payload,
                      Append(fills, FillRecord(events[k], f,
                                               FillOne(f, events[k]))),
                      FillOne(f, events[k]))

\* start < self._offset: islice(chain(start, descriptors), start, stop)
PartitionHeader(r, i) ==
    LET start == i * PARTITION_SIZE
        stop == (1 + i) * PARTITION_SIZE
    IN  IF start < r._offset THEN islice(HeaderChain(r), start, stop) ELSE <<>>

\* limit = stop - start - len(payload)
PartitionLimit(i, payload) ==
    (1 + i) * PARTITION_SIZE - i * PARTITION_SIZE - Len(payload)

\* skip = max(0, start - len(payload));
\* events = islice(interlace_event_pages(...), skip, limit)
PartitionEvents(dc, r, i, payload) ==
    LET skip == Max(0, i * PARTITION_SIZE - Len(payload))
    IN  islice(RunEvents(dc, r), skip, PartitionLimit(i, payload))

\* the stop appended to every partition that reaches the events
WithStop_EveryPartition(r, i, payload) ==
    IF r._run_stop_doc # NoDoc
    THEN Append(payload, Item("stop", r._run_stop_doc))
    ELSE payload

\* if i == self.npartitions - 1 and self._run_stop_doc is not None:
\*     payload.append(('stop', self._run_stop_doc))
WithStop(r, i, payload) ==
    IF i = r.npartitions - 1 /\ r._run_stop_doc # NoDoc
    THEN Append(payload, Item("stop", r._run_stop_doc))
    ELSE payload

\* the return of read_partition((i, False)) once the event loop is done
FilledReturn(r, i, loop) ==
    [status |-> loop.status,
     payload |-> IF loop.status = "ok"
                 THEN PopIds(WithStop(r, i, loop.payload))
                 ELSE <<>>,
     document_cache |-> loop.document_cache, filler |-> loop.filler,
     run |-> r, fills |-> loop.fills]

\* read_partition((i, False)) after the header went into the payload
FilledBody(dc, f, i, r, payload) ==
    IF PartitionLimit(i, payload) > 0
    THEN FilledReturn(r, i,
             FillLoop(PartitionEvents(dc, r, i, payload), 1, dc, f, payload,
                      <<>>))
    ELSE [status |-> "ok", payload |-> PopIds(payload), document_cache |-> dc,
          filler |-> f, run |-> r, fills |-> <<>>]

\* read_partition((i, False)) after self._load()
FilledLoaded(dc, f, i, r) == FilledBody(dc, f, i, r, PartitionHeader(r, i))

\* the read done with what an earlier load memoized on the run
read_partition_filled_Memoized(dc, f, i) == FilledLoaded(dc, f, i, run)

\* BlueskyRun.read_partition((i, False))
read_partition_filled(dc, f, i) == FilledLoaded(dc, f, i, Load(dc))

RECURSIVE DatumPageLoop(_, _, _, _)
\* for datum_page in get_datum_pages(resource_uid): append it and add its
\* datum ids to datum_ids
DatumPageLoop(resource_uid, pages, k, st) ==
    IF k > Len(pages) THEN st
    ELSE DatumPageLoop(
             resource_uid, pages, k + 1,
             [st EXCEPT
                 !.payload = Append(@, Item("datum_page",
                                 [resource |-> resource_uid,
                                  datum_id |-> pages[k], _id |-> "oid"])),
                 !.datum_ids = @ \cup Range(pages[k])])

\* payload.append(('resource', resource)) and the datum pages after it
EmitResource(resource_uid, st) ==
    DatumPageLoop(
        resource_uid, datum_pages_by_resource(resource_uid), 1,
        [st EXCEPT !.payload = Append(@, Item("resource",
                                     [uid |-> resource_uid, _id |-> "oid"]))])

\* if datum_id not in datum_ids: resolve the resource and emit it
UnfilledKey(datum_id, st) ==
    IF LookupFails(datum_id)
    THEN [st EXCEPT !.status = "KeyError",
                    !.calls = @ \o ResolveCalls(datum_id, "", TRUE, TRUE)]
    ELSE IF ResourceOf(datum_id) \notin resources
    THEN [st EXCEPT !.status = "KeyError",
                    !.calls = @ \o ResolveCalls(datum_id, ResourceOf(datum_id),
                                                FALSE, TRUE)]
    ELSE EmitResource(
             ResourceOf(datum_id),
             [st EXCEPT !.calls = @ \o ResolveCalls(datum_id,
                                           ResourceOf(datum_id), FALSE, FALSE)])

RECURSIVE UnfilledKeyLoop(_, _, _)
\* for key, is_filled in event['filled'].items(): if not is_filled: ...
UnfilledKeyLoop(event, k, st) ==
    IF k > Len(event.data) \/ st.status # "ok" THEN st
    ELSE IF event.filled[k] \/ event.data[k] \in st.datum_ids
         THEN UnfilledKeyLoop(event, k + 1, st)
    ELSE UnfilledKeyLoop(event, k + 1, UnfilledKey(event.data[k], st))

\* the event appended only under "if not is_filled"
UnfilledEmitEvent_OnlyUnfilled(event, st) ==
    IF st.status # "ok" \/ \A j \in DOMAIN event.filled : event.filled[j]
    THEN st
    ELSE [st EXCEPT !.payload = Append(@, Item("event", event))]

\* payload.append(('event', event)), unless a call raised before
UnfilledEmitEvent(event, st) ==
    IF st.status # "ok" THEN st
    ELSE [st EXCEPT !.payload = Append(@, Item("event", event))]

RECURSIVE UnfilledLoop(_, _, _)
\* for event in events: emit what its unfilled fields refer to, then it
UnfilledLoop(events, k, st) ==
    IF k > Len(events) \/ st.status # "ok" THEN st
    ELSE UnfilledLoop(events, k + 1,
             UnfilledEmitEvent(events[k], UnfilledKeyLoop(events[k], 1, st)))

\* the return of read_partition_unfilled(i) once the event loop is done
UnfilledReturn(dc, f, r, i, loop) ==
    [status |-> loop.status,
     payload |-> IF loop.status = "ok"
                 THEN PopIds(WithStop(r, i, loop.payload))
                 ELSE <<>>,
     document_cache |-> dc, filler |-> f, run |-> r, calls |-> loop.calls]

\* read_partition_unfilled(i) after the header went into the payload
UnfilledBody(dc, f, i, r, payload) ==
    IF PartitionLimit(i, payload) > 0
    THEN UnfilledReturn(dc, f, r, i,
             UnfilledLoop(PartitionEvents(dc, r, i, payload), 1,
                          [status |-> "ok", payload |-> payload,
                           datum_ids |-> {}, calls |-> <<>>]))
    ELSE [status |-> "ok", payload |-> PopIds(payload), document_cache |-> dc,
          filler |-> f, run |-> r, calls |-> <<>>]

\* read_partition_unfilled(i) after self._load()
UnfilledLoaded(dc, f, i, r) == UnfilledBody(dc, f, i, r, PartitionHeader(r, i))

\* BlueskyRun.read_partition_unfilled(i), reached by read_partition((i, True))
read_partition_unfilled(dc, f, i) == UnfilledLoaded(dc, f, i, Load(dc))

RECURSIVE CanonicalLoop(_, _, _, _, _, _)
\* one turn of canonical's loop, p being what read_partition((i, False)) did
CanonicalStep(i, n, out, p) ==
    IF p.status # "ok"
    THEN [status |-> p.status, payload |-> out,
          document_cache |-> p.document_cache, filler |-> p.filler,
          run |-> p.run]
    ELSE CanonicalLoop(i + 1, n, p.document_cache, p.filler, p.run,
                       out \o p.payload)

\* the body of BlueskyRun.canonical for partitions i .. n - 1, n being
\* self.npartitions as range() read it when the generator started
CanonicalLoop(i, n, dc, f, r, out) ==
    IF i >= n
    THEN [status |-> "ok", payload |-> out, document_cache |-> dc,
          filler |-> f, run |-> r]
    ELSE CanonicalStep(i, n, out, read_partition_filled(dc, f, i))

\* BlueskyRun.canonical(), consumed to its end
canonical(dc, f, r) == CanonicalLoop(0, r.npartitions, dc, f, r, <<>>)

VARIABLES
    gens,             \* the event-page sources handed to a merge
    chunk_size,       \* chunk_size of interlace_event_page_chunks, else 0
    iters,            \* per source, the items its iterator gives
    pos,              \* per source, the place of its iterator
    heap,             \* the heap of (time, indx, val)
    out,              \* what the merge has yielded
    pc                \* where the merge generator stands

VARIABLES
    stream,           \* a BlueskyEventStream: its descriptors, the event
                      \* pages of each, include, exclude and its filler
    ds                \* self._ds, what _open_dataset got

VARIABLES
    server,           \* the run a server holds: its partitions
    remote,           \* a RemoteBlueskyRun: _source_id, npartitions, bag,
                      \* parts, raw_parts
    requests,         \* the requests the server has received, in order
    canon,            \* a generator made by canonical() or
                      \* canonical_unfilled() of the RemoteBlueskyRun
    called            \* the last call on the RemoteBlueskyRun and the
                      \* requests it made

VARIABLES
    given,            \* what a function is called on: its arguments, or the
                      \* object with the collections it reads
    got               \* what the call returned or raised

runvars == <<document_cache, filler, run, last>>

mergevars == <<gens, chunk_size, iters, pos, heap, out, pc>>

streamvars == <<stream, ds>>

remotevars == <<server, remote, requests, canon, called>>

callvars == <<given, got>>

vars == <<document_cache, filler, run, last,
          gens, chunk_size, iters, pos, heap, out, pc, stream, ds,
          server, remote, requests, canon, called, given, got>>

(***************************************************************************)
(* The run: documents arrive in the store, the run is read.                *)
(***************************************************************************)
NoResult(op) ==
    [op |-> op, index |-> 0, raw |-> FALSE, static |-> TRUE, status |-> "ok",
     payload |-> <<>>, fills |-> <<>>, calls |-> <<>>]

EmptyCache ==
    [descriptors |-> <<>>,
     event_pages |-> [d \in AllDescriptorUids |-> <<>>],
     stop_doc |-> NoDoc]

\* number of events the store holds
EventCount(dc) ==
    SumSeq([k \in DOMAIN DescriptorUids |->
               get_event_count(dc, DescriptorUids[k])])

\* the time of the last event of descriptor d, 1 when it has none
LastTime(dc, d) ==
    LET rows == flatten_event_page_gen(dc.event_pages[DescriptorUids[d]])
    IN  IF rows = <<>> THEN 1 ELSE rows[Len(rows)].time

\* a run whose generator gave its RunStart only; Catalog.__init__ loads it
InitRun ==
    /\ document_cache = EmptyCache
    /\ filler = [resource_cache |-> {}, datum_cache |-> {}]
    /\ run = Load(EmptyCache)
    /\ last = NoResult("init")

\* no merge under way
InitNoMerge ==
    /\ gens = <<>>
    /\ chunk_size = 0
    /\ iters = <<>>
    /\ pos = <<>>
    /\ heap = {}
    /\ out = <<>>
    /\ pc = "idle"

\* no stream opened
InitNoStream ==
    /\ stream = [descriptor_docs |-> <<>>]
    /\ ds = [status |-> "unset"]

\* no RemoteBlueskyRun made
InitNoRemote ==
    /\ server = <<>>
    /\ remote = [bag |-> "None"]
    /\ requests = <<>>
    /\ canon = [pc |-> "none"]
    /\ called = [op |-> "none"]

\* no function called
InitNoCall ==
    /\ given = [fn |-> "none"]
    /\ got = [status |-> "unset"]

Init == InitRun /\ InitNoMerge /\ InitNoStream /\ InitNoRemote /\ InitNoCall

\* DocumentCache.descriptor(doc): the next EventDescriptor of the run
Descriptor ==
    /\ document_cache.stop_doc = NoDoc
    /\ Len(document_cache.descriptors) < Len(DescriptorUids)
    /\ document_cache' =
           [document_cache EXCEPT !.descriptors =
               Append(@, [uid |-> DescriptorUids[Len(@) + 1], _id |-> "oid"])]
    /\ last' = NoResult("descriptor")
    /\ UNCHANGED <<filler, run>>
    /\ UNCHANGED mergevars
    /\ UNCHANGED streamvars
    /\ UNCHANGED callvars
    /\ UNCHANGED remotevars

\* DocumentCache.event_page(doc): a page of one event of descriptor d, not
\* earlier than the events the descriptor has
EventPage ==
    /\ document_cache.stop_doc = NoDoc
    /\ EventCount(document_cache) < MaxEvents
    /\ \E d \in 1..Len(document_cache.descriptors), data \in EventData :
       \E t \in {u \in EventTimes : u >= LastTime(document_cache, d)} :
           LET uid == DescriptorUids[d]
               k == get_event_count(document_cache, uid) + 1
           IN  document_cache' =
                   [document_cache EXCEPT !.event_pages[uid] =
                       Append(@, <<NewEvent(d, k, t, data)>>)]
    /\ last' = NoResult("event_page")
    /\ UNCHANGED <<filler, run>>
    /\ UNCHANGED mergevars
    /\ UNCHANGED streamvars
    /\ UNCHANGED callvars
    /\ UNCHANGED remotevars

\* DocumentCache.stop(doc): the RunStop of the run
Stop ==
    /\ document_cache.stop_doc = NoDoc
    /\ document_cache' = [document_cache EXCEPT !.stop_doc = StopDoc]
    /\ last' = NoResult("stop")
    /\ UNCHANGED <<filler, run>>
    /\ UNCHANGED mergevars
    /\ UNCHANGED streamvars
    /\ UNCHANGED callvars
    /\ UNCHANGED remotevars

\* the run and the store after an operation that returned p
Returned(op, i, raw, static, p, fills, calls) ==
    /\ document_cache' = p.document_cache
    /\ filler' = p.filler
    /\ run' = p.run
    /\ last' = [op |-> op, index |-> i, raw |-> raw, static |-> static,
                status |-> p.status, payload |-> p.payload,
                fills |-> fills, calls |-> calls]
    /\ UNCHANGED mergevars
    /\ UNCHANGED streamvars
    /\ UNCHANGED callvars
    /\ UNCHANGED remotevars

\* whether the run's memoized fields are those a load would compute now
Static == run = Load(document_cache)

\* run.read_partition((i, False)) for a partition index of the run
ReadFilled(i) ==
    \E p \in {read_partition_filled(document_cache, filler, i)} :
        Returned("read_partition", i, FALSE, Static, p, p.fills, <<>>)

\* run.read_partition((i, True)) for a partition index of the run
ReadUnfilled(i) ==
    \E p \in {read_partition_unfilled(document_cache, filler, i)} :
        Returned("read_partition", i, TRUE, Static, p, <<>>, p.calls)

\* run.read_partition((i, raw))
ReadPartition ==
    \E i \in 0..(Load(document_cache).npartitions - 1) :
        ReadFilled(i) \/ ReadUnfilled(i)

\* list(run.canonical())
Canonical ==
    \E p \in {canonical(document_cache, filler, run)} :
        Returned("canonical", 0, FALSE, Static, p, <<>>, <<>>)

\* DaskFiller.event(doc) / DaskFiller.event_page(doc): a deep copy of doc in
\* which every field of needs_filling, the external data keys of the
\* descriptor, holds array.from_delayed(delayed_fill(filled_doc, key)); the
\* fields of an event of the model are all external
DaskFillerEvent(doc) ==
    [doc EXCEPT !.data = [key \in DOMAIN doc.data |-> <<"delayed">> \o doc.data[key]]]

\* filler.event(doc) of a DaskFiller on an event of the store
DaskEvent ==
    /\ \E d \in AllDescriptorUids :
       \E doc \in Range(flatten_event_page_gen(document_cache.event_pages[d])) :
           last' = [NoResult("DaskFiller.event") EXCEPT
                       !.payload = <<Item("event", doc),
                                     Item("event", DaskFillerEvent(doc))>>]
    /\ UNCHANGED <<document_cache, filler, run>>
    /\ UNCHANGED mergevars
    /\ UNCHANGED streamvars
    /\ UNCHANGED callvars
    /\ UNCHANGED remotevars

Next ==
    Descriptor \/ EventPage \/ Stop \/ ReadPartition \/ Canonical \/ DaskEvent

Spec == Init /\ [][Next]_vars

(***************************************************************************)
(* The merges, step by step: interlace_event_pages over rows and           *)
(* interlace_event_page_chunks over re-chunked pages.  A generator runs    *)
(* from one yield to the next.                                             *)
(***************************************************************************)
\* the times of the rows of one source: non-decreasing
TimeSeqs ==
    {ts \in UNION {[1..n -> MergeTimes] : n \in 0..MaxRows} :
        \A k \in 1..(Len(ts) - 1) : ts[k] <= ts[k + 1]}

\* the ways to cut n rows into pages of at least one row
PageLens(n) ==
    {ls \in UNION {[1..m -> 1..n] : m \in 0..n} : SumSeq(ls) = n}

\* ts cut into pages of the lengths ls
Paginate(ts, ls) ==
    [j \in 1..Len(ls) |->
        SubSeq(ts, SumSeq(SubSeq(ls, 1, j - 1)) + 1, SumSeq(SubSeq(ls, 1, j)))]

\* the row times of one source, page by page
PagedTimes ==
    UNION {{Paginate(ts, ls) : ls \in PageLens(Len(ts))} : ts \in TimeSeqs}

\* the event pages of source indx: its k-th row has uid (indx, k)
SourcePages(indx, pages) ==
    [j \in DOMAIN pages |->
        [m \in DOMAIN pages[j] |->
            [uid |-> <<indx, Len(Concat(SubSeq(pages, 1, j - 1))) + m>>,
             time |-> pages[j][m]]]]

\* the ways to hand n sources to a merge
SourceSets(n) ==
    {[indx \in 1..n |-> SourcePages(indx, c[indx])] : c \in [1..n -> PagedTimes]}

\* iters = [iter(...) for g in gens] and heap = [] of either merge
InitMerge ==
    /\ InitRun
    /\ InitNoStream
    /\ InitNoRemote
    /\ InitNoCall
    /\ \E n \in 1..MaxSources : gens \in SourceSets(n)
    /\ chunk_size \in {0} \cup ChunkSizes
    /\ iters = [indx \in DOMAIN gens |->
                   IF chunk_size = 0
                   THEN flatten_event_page_gen(gens[indx])
                   ELSE rechunk_event_pages(gens[indx], chunk_size)]
    /\ pos = [indx \in DOMAIN gens |-> 1]
    /\ heap = {}
    /\ out = <<>>
    /\ pc = "prime"

\* the heap and the iterators once every source was asked for an item
Primed ==
    IF chunk_size = 0
    THEN PrimeHeap(iters, 1, pos, heap)
    ELSE PrimeChunkHeap(iters, 1, pos, heap)

\* for i in range(len(iters)): safe_next(i)
Prime ==
    /\ pc = "prime"
    /\ pos' = Primed.pos
    /\ heap' = Primed.heap
    /\ pc' = "loop"
    /\ UNCHANGED <<gens, chunk_size, iters, out>>
    /\ UNCHANGED runvars
    /\ UNCHANGED streamvars
    /\ UNCHANGED callvars
    /\ UNCHANGED remotevars

\* one turn of "while heap" of interlace_event_pages: pop, yield,
\* safe_next(indx)
PopRow ==
    /\ pc = "loop"
    /\ chunk_size = 0
    /\ heap # {}
    /\ out' = Append(out, HeapMin(heap).val)
    /\ pos' = safe_next(iters, HeapMin(heap).indx, pos,
                        heap \ {HeapMin(heap)}).pos
    /\ heap' = safe_next(iters, HeapMin(heap).indx, pos,
                         heap \ {HeapMin(heap)}).heap
    /\ UNCHANGED <<gens, chunk_size, iters, pc>>
    /\ UNCHANGED runvars
    /\ UNCHANGED streamvars
    /\ UNCHANGED callvars
    /\ UNCHANGED remotevars

\* one turn of "while heap" of interlace_event_page_chunks: pop, yield
PopChunk ==
    /\ pc = "loop"
    /\ chunk_size > 0
    /\ heap # {}
    /\ out' = Append(out, HeapMin(heap).val)
    /\ heap' = heap \ {HeapMin(heap)}
    /\ UNCHANGED <<gens, chunk_size, iters, pos, pc>>
    /\ UNCHANGED runvars
    /\ UNCHANGED streamvars
    /\ UNCHANGED callvars
    /\ UNCHANGED remotevars

\* the heap is empty: the generator returns
Exhausted ==
    /\ pc = "loop"
    /\ heap = {}
    /\ pc' = "done"
    /\ UNCHANGED <<gens, chunk_size, iters, pos, heap, out>>
    /\ UNCHANGED runvars
    /\ UNCHANGED streamvars
    /\ UNCHANGED callvars
    /\ UNCHANGED remotevars

NextMerge == Prime \/ PopRow \/ PopChunk \/ Exhausted

SpecMerge == InitMerge /\ [][NextMerge]_vars

(***************************************************************************)
(* What the documentation says a run's document stream is, written down    *)
(* without the reading code: start, descriptor*, time-ordered event*,      *)
(* stop?.                                                                  *)
(***************************************************************************)
Key(name, uid) == <<name, uid>>

\* the (kind, uid) pairs of a payload that holds no datum page
Keys(payload) ==
    [k \in DOMAIN payload |-> Key(payload[k].name, payload[k].doc.uid)]

\* every event of the store with the descriptor's place d in the
\* descriptor list and its place k among the descriptor's events
StoredRows(dc) ==
    UNION { LET rows == flatten_event_page_gen(
                            dc.event_pages[dc.descriptors[d].uid])
            IN  {[d |-> d, k |-> k, ev |-> rows[k]] : k \in DOMAIN rows}
          : d \in DOMAIN dc.descriptors }

RowBefore(a, b) ==
    \/ a.ev.time < b.ev.time
    \/ a.ev.time = b.ev.time /\ a.d < b.d
    \/ a.ev.time = b.ev.time /\ a.d = b.d /\ a.k <= b.k

RECURSIVE SortRows(_)
SortRows(S) ==
    IF S = {} THEN <<>>
    ELSE LET m == CHOOSE a \in S : \A b \in S : RowBefore(a, b)
         IN  <<m.ev>> \o SortRows(S \ {m})

\* the events of the store in time order
TimeOrderedEvents(dc) == SortRows(StoredRows(dc))

FlatHeader(dc) ==
    <<Key("start", StartUid)>>
    \o [k \in DOMAIN dc.descriptors |-> Key("descriptor", dc.descriptors[k].uid)]

FlatEvents(dc) ==
    LET evs == TimeOrderedEvents(dc)
    IN  [k \in DOMAIN evs |-> Key("event", evs[k].uid)]

FlatStream(dc) ==
    FlatHeader(dc) \o FlatEvents(dc)
    \o (IF dc.stop_doc # NoDoc THEN <<Key("stop", StopUid)>> ELSE <<>>)

\* the items of s at the 0-based positions [i * size, (i + 1) * size)
PageOf(s, i, size) ==
    [k \in 1..Max(0, Min(size, Len(s) - i * size)) |-> s[i * size + k]]

NamesOf(payload, names) == SelectSeq(payload, LAMBDA it : it.name \in names)

CountOf(payload, name) == Len(NamesOf(payload, {name}))

ReadOk(raw) ==
    /\ last.op = "read_partition"
    /\ last.raw = raw
    /\ last.status = "ok"

(***************************************************************************)
(* C1.  For a static run, the documents canonical() yields -- the          *)
(* concatenation of read_partition((i, False)), i = 0 .. npartitions-1 --  *)
(* are the whole stream start, descriptor*, time-ordered event*, stop?,    *)
(* every document exactly once, also when the run holds more documents     *)
(* than one partition.                                                     *)
(***************************************************************************)
C1_CanonicalIsWholeStream ==
    (last.op = "canonical" /\ last.static /\ last.status = "ok")
        => Keys(last.payload) = FlatStream(document_cache)

(***************************************************************************)
(* C2.  The start, descriptor and event documents of                       *)
(* read_partition((i, False)) are those at the positions [i*P, (i+1)*P)    *)
(* of the stream start, descriptor*, event*.                               *)
(***************************************************************************)
C2_PartitionIsSliceOfStream ==
    ReadOk(FALSE)
        => Keys(NamesOf(last.payload, {"start", "descriptor", "event"}))
           = PageOf(FlatHeader(document_cache) \o FlatEvents(document_cache),
                    last.index, PARTITION_SIZE)

(***************************************************************************)
(* C3.  After a load, npartitions = ceil(count / PARTITION_SIZE) with      *)
(* count = 1 + number of descriptors + number of events of all             *)
(* descriptors + 1 if a RunStop exists; npartitions >= 1 and the schema    *)
(* shape is (count,).                                                      *)
(***************************************************************************)
DocumentCount(dc) ==
    1 + Len(dc.descriptors) + Cardinality(StoredRows(dc))
    + Cardinality({dc.stop_doc} \ {NoDoc})

JustLoaded == last.op \in {"init", "read_partition", "canonical"}

C3_LoadCountsDocuments ==
    JustLoaded
        => /\ run.shape = <<DocumentCount(document_cache)>>
           /\ run.npartitions >= 1
           /\ run.npartitions * PARTITION_SIZE >= DocumentCount(document_cache)
           /\ (run.npartitions - 1) * PARTITION_SIZE
                  < DocumentCount(document_cache)

\* a load of a run that fills more than one partition and has its RunStop
C3_Witness ==
    /\ last.op = "read_partition"
    /\ document_cache.stop_doc # NoDoc
    /\ DocumentCount(document_cache) > PARTITION_SIZE
    /\ run.npartitions = 2

(***************************************************************************)
(* C4.  In a read of partition i, raw or filled: partition 0 begins with   *)
(* the start document; a stop document is in the payload exactly when a    *)
(* RunStop exists and i = npartitions - 1, and then once, as the last      *)
(* item; a run of a start and a stop alone has one partition, [start,      *)
(* stop].                                                                  *)
(***************************************************************************)
C4_StartFirstStopLast ==
    (last.op = "read_partition" /\ last.status = "ok")
        => /\ last.index = 0 => /\ last.payload # <<>>
                                /\ last.payload[1].name = "start"
           /\ CountOf(last.payload, "stop")
                  = (IF /\ document_cache.stop_doc # NoDoc
                        /\ last.index = run.npartitions - 1
                     THEN 1 ELSE 0)
           /\ CountOf(last.payload, "stop") = 1
                  => last.payload[Len(last.payload)].name = "stop"
           /\ (/\ document_cache.descriptors = <<>>
               /\ document_cache.stop_doc # NoDoc)
                  => /\ run.npartitions = 1
                     /\ Keys(last.payload)
                            = <<Key("start", StartUid), Key("stop", StopUid)>>

\* the last partition of a run of several partitions read, with its stop
C4_Witness ==
    /\ last.op = "read_partition"
    /\ last.status = "ok"
    /\ last.index = 1
    /\ run.npartitions = 2
    /\ CountOf(last.payload, "stop") = 1

(***************************************************************************)
(* External references, written down from the documents alone.             *)
(***************************************************************************)
\* the resource a datum id of the model belongs to
ReferencedResource(datum_id) == IF datum_id = D3 THEN "r2" ELSE "r1"

\* the datum ids of the fields of an event that are not filled
UnfilledIds(event) ==
    {event.data[j] : j \in {h \in DOMAIN event.data : ~event.filled[h]}}

\* the event refers to a datum the store does not hold
HasUnresolvable(event) == \E id \in UnfilledIds(event) : id \notin HeldDatumIds

CallsOf(calls, fn) == SelectSeq(calls, LAMBDA c : c.fn = fn)

(***************************************************************************)
(* C5.  In read_partition((i, True)) the Resource and all the DatumPages   *)
(* of the resource an unfilled field refers to come before the event, and  *)
(* each Resource is in the payload at most once.                           *)
(***************************************************************************)
ResourceBefore(payload, k, resource_uid) ==
    /\ \E m \in 1..(k - 1) :
           payload[m] = Item("resource", [uid |-> resource_uid])
    /\ \A page \in Range(datum_pages_by_resource(resource_uid)) :
           \E m \in 1..(k - 1) :
               payload[m] = Item("datum_page", [resource |-> resource_uid,
                                                datum_id |-> page])

C5_ResourcesOnceBeforeEvents ==
    ReadOk(TRUE)
        => /\ \A k \in DOMAIN last.payload :
                  last.payload[k].name = "event"
                      => \A id \in UnfilledIds(last.payload[k].doc) :
                             ResourceBefore(last.payload, k,
                                            ReferencedResource(id))
           /\ \A r \in resources :
                  Len(SelectSeq(last.payload,
                                LAMBDA it : it = Item("resource", [uid |-> r])))
                      <= 1

(***************************************************************************)
(* C6.  read_partition((i, False)) holds no resource and no datum_page,    *)
(* and its (kind, uid) pairs are those of read_partition((i, True)) on the *)
(* same run with the resource and datum_page pairs deleted.                *)
(***************************************************************************)
Selected(payload) ==
    Keys(NamesOf(payload, {"start", "descriptor", "event", "stop"}))

NoAssets(payload) == NamesOf(payload, {"resource", "datum_page"}) = <<>>

FilledAgrees(raw_payload, filled) ==
    filled.status = "ok"
        => /\ NoAssets(filled.payload)
           /\ Keys(filled.payload) = Selected(raw_payload)

UnfilledAgrees(filled_payload, unfilled) ==
    unfilled.status = "ok"
        => /\ NoAssets(filled_payload)
           /\ Keys(filled_payload) = Selected(unfilled.payload)

C6_FilledSelectsAsRaw ==
    /\ ReadOk(TRUE)
           => FilledAgrees(last.payload,
                  read_partition_filled(document_cache, filler, last.index))
    /\ ReadOk(FALSE)
           => UnfilledAgrees(last.payload,
                  read_partition_unfilled(document_cache, filler, last.index))

\* a raw read that emitted a resource ahead of an event, on a run whose
\* filled read of the same partition succeeds
C6_Witness ==
    /\ ReadOk(TRUE)
    /\ CountOf(last.payload, "resource") > 0
    /\ CountOf(last.payload, "event") > 0
    /\ read_partition_filled(document_cache, filler, last.index).status = "ok"

(***************************************************************************)
(* C7.  _fill ends, and on an event with a reference the store cannot      *)
(* resolve it ends by raising: the id that failed again right after its    *)
(* resource was registered is re-raised as the unresolvable-reference      *)
(* error.  read_partition((i, False)) then fails; a payload it returns     *)
(* holds every event it selected, every field filled.                      *)
(***************************************************************************)
FillEnds(e) ==
    /\ e.status # "RecursionError"
    /\ e.depth <= Len(e.event.data) + 1

FillRaises(e) ==
    HasUnresolvable(e.event) => e.status = "UnresolvableForeignKeyError"

C7_UnresolvableIsRaised ==
    (last.op = "read_partition" /\ ~last.raw)
        => /\ \A k \in DOMAIN last.fills :
                  FillEnds(last.fills[k]) /\ FillRaises(last.fills[k])
           /\ (\E k \in DOMAIN last.fills : HasUnresolvable(last.fills[k].event))
                  => last.status # "ok" /\ last.payload = <<>>
           /\ last.status = "ok"
                  => /\ CountOf(last.payload, "event") = Len(last.fills)
                     /\ \A k \in DOMAIN last.payload :
                            last.payload[k].name = "event"
                                => UnfilledIds(last.payload[k].doc) = {}

\* a filled read that met an event whose datum the store does not hold:
\* the second attempt, made after the resource was registered, raised
C7_Witness ==
    /\ last.op = "read_partition"
    /\ ~last.raw
    /\ last.status = "UnresolvableForeignKeyError"
    /\ \E k \in DOMAIN last.fills :
           /\ HasUnresolvable(last.fills[k].event)
           /\ last.fills[k].depth = 2
           /\ Len(CallsOf(last.fills[k].calls, "get_resource")) = 1

(***************************************************************************)
(* C8.  A _fill of an event whose references the store all holds succeeds  *)
(* with one get_resource call and one pass over get_datum_pages for each   *)
(* distinct resource it refers to that is not registered yet, and with     *)
(* none for a registered one.                                              *)
(***************************************************************************)
NeededResources(e) ==
    {ReferencedResource(id) : id \in UnfilledIds(e.event)}
        \ e.before.resource_cache

FetchedOnce(e, fn) ==
    /\ Len(CallsOf(e.calls, fn)) = Cardinality(NeededResources(e))
    /\ \A r \in NeededResources(e) :
           \E k \in DOMAIN e.calls : e.calls[k] = Call(fn, <<r>>)

C8_OneFetchPerNewResource ==
    (last.op = "read_partition" /\ ~last.raw)
        => \A k \in DOMAIN last.fills :
               ~HasUnresolvable(last.fills[k].event)
                   => /\ last.fills[k].status = "ok"
                      /\ FetchedOnce(last.fills[k], "get_resource")
                      /\ FetchedOnce(last.fills[k], "get_datum_pages")

\* one read filled an event that refers to two resources, with three
\* fields, by two fetches, and after it an event whose resources were
\* registered by then, by none
C8_Witness ==
    /\ last.op = "read_partition"
    /\ ~last.raw
    /\ \E k, m \in DOMAIN last.fills :
           /\ k < m
           /\ Cardinality(NeededResources(last.fills[k])) = 2
           /\ Len(last.fills[k].event.data) = 3
           /\ Len(CallsOf(last.fills[k].calls, "get_resource")) = 2
           /\ UnfilledIds(last.fills[m].event) # {}
           /\ last.fills[m].status = "ok"
           /\ last.fills[m].calls = <<>>

(***************************************************************************)
(* C9.  interlace_event_pages over sources that are each non-decreasing in *)
(* time yields rows in non-decreasing time; of rows of equal time from     *)
(* different sources the one of the lower source index comes first; the    *)
(* rows of one source keep their order.                                    *)
(***************************************************************************)
SourceOf(row) == row.uid[1]

PlaceOf(row) == row.uid[2]

C9_MergeIsOrderedAndStable ==
    chunk_size = 0
        => \A a, b \in DOMAIN out :
               a < b
                   => /\ out[a].time <= out[b].time
                      /\ (out[a].time = out[b].time
                          /\ SourceOf(out[a]) # SourceOf(out[b]))
                             => SourceOf(out[a]) < SourceOf(out[b])
                      /\ SourceOf(out[a]) = SourceOf(out[b])
                             => PlaceOf(out[a]) < PlaceOf(out[b])

\* a finished merge of two sources of two rows each, with rows of equal
\* time in both sources, that yielded what the generator run to its end
\* yields
C9_Witness ==
    /\ pc = "done"
    /\ chunk_size = 0
    /\ Len(out) = 4
    /\ out = interlace_event_pages(gens)
    /\ \E a, b \in DOMAIN out :
           /\ a < b
           /\ out[a].time = out[b].time
           /\ SourceOf(out[a]) # SourceOf(out[b])
    /\ \E a, b \in DOMAIN out :
           /\ a < b
           /\ out[a].time < out[b].time
           /\ SourceOf(out[a]) > SourceOf(out[b])

(***************************************************************************)
(* C10.  In both merges the next item of source i is pulled and pushed     *)
(* each time an item of source i is popped, so that when the merge ends    *)
(* every row, or page, of every source was yielded exactly once.           *)
(***************************************************************************)
TimesYielded(item) == Cardinality({a \in DOMAIN out : out[a] = item})

C10_EveryItemYieldedOnce ==
    pc = "done"
        => \A indx \in DOMAIN iters :
               \A k \in DOMAIN iters[indx] :
                   TimesYielded(iters[indx][k]) = 1

(***************************************************************************)
(* C11.  interlace_event_page_chunks over sources that are each            *)
(* non-decreasing in time yields pages of at most chunk_size rows, and the *)
(* times of the rows, read page by page in the order the pages are         *)
(* yielded, are non-decreasing.                                            *)
(***************************************************************************)
RowsYielded == Concat(out)

C11_ChunksAreTimeOrdered ==
    chunk_size > 0
        => /\ \A a \in DOMAIN out : Len(out[a]) <= chunk_size
           /\ \A a, b \in DOMAIN RowsYielded :
                  a < b => RowsYielded[a].time <= RowsYielded[b].time

(***************************************************************************)
(* C12.  Every read_partition, raw or filled, loads anew before it slices: *)
(* after documents were appended to the store the read uses the document   *)
(* count, the number of partitions and the descriptors of the store as it  *)
(* is now, and a RunStop recorded since the earlier read ends the last     *)
(* partition.                                                              *)
(***************************************************************************)
MemoIsCurrent ==
    /\ run._descriptors = document_cache.descriptors
    /\ run._run_stop_doc = document_cache.stop_doc
    /\ run._offset = Len(FlatHeader(document_cache))
    /\ run.shape = <<DocumentCount(document_cache)>>
    /\ run.npartitions = CeilDiv(DocumentCount(document_cache), PARTITION_SIZE)

HeaderIsCurrent ==
    last.index = 0
        => Keys(NamesOf(last.payload, {"start", "descriptor"}))
               = SubSeq(FlatHeader(document_cache), 1,
                        Min(PARTITION_SIZE, Len(FlatHeader(document_cache))))

StopIsEmitted ==
    (document_cache.stop_doc # NoDoc
     /\ last.index = CeilDiv(DocumentCount(document_cache), PARTITION_SIZE) - 1)
        => /\ last.payload # <<>>
           /\ last.payload[Len(last.payload)].name = "stop"
           /\ last.payload[Len(last.payload)].doc.uid = StopUid

C12_ReadLoadsAnew ==
    last.op = "read_partition"
        => /\ MemoIsCurrent
           /\ last.status = "ok" => HeaderIsCurrent /\ StopIsEmitted

\* a read of a run whose memoized fields were out of date when it was
\* called, with a RunStop recorded since: the read ends with the stop
C12_Witness ==
    /\ last.op = "read_partition"
    /\ ~last.static
    /\ last.status = "ok"
    /\ CountOf(last.payload, "descriptor") = 2
    /\ CountOf(last.payload, "stop") = 1

(***************************************************************************)
(* C13.  No document that read_partition returns, raw or filled, of any    *)
(* kind (start, descriptor, resource, datum_page, event, stop), has the    *)
(* key '_id'.                                                              *)
(***************************************************************************)
HasId(doc) == "_id" \in DOMAIN doc

C13_NoIdInPayload ==
    last.op \in {"read_partition", "canonical"}
        => \A k \in DOMAIN last.payload : ~HasId(last.payload[k].doc)

\* a raw read of a store whose documents have '_id' that returned a
\* document of each of the six kinds
C13_Witness ==
    /\ last.op = "read_partition"
    /\ last.raw
    /\ HasId(document_cache.stop_doc)
    /\ \A d \in DOMAIN document_cache.descriptors :
           HasId(document_cache.descriptors[d])
    /\ \A name \in {"start", "descriptor", "resource", "datum_page", "event",
                    "stop"} : CountOf(last.payload, name) > 0

(***************************************************************************)
(* C14.  Filling an event whose fields are all marked filled gives it back *)
(* with the same data values and fetches no resource and no datum page:    *)
(* in _fill, as read_partition uses it, and in DaskFiller.event and        *)
(* DaskFiller.event_page, which replace only the fields whose filled flag  *)
(* is false.                                                               *)
(***************************************************************************)
AllFilled(event) == \A key \in DOMAIN event.filled : event.filled[key]

\* the event of the payload that has the uid of event
Emitted(payload, event) ==
    SelectSeq(payload,
              LAMBDA it : it.name = "event" /\ it.doc.uid = event.uid)

FillKeepsFilled(e) ==
    AllFilled(e.event)
        => /\ e.status = "ok"
           /\ e.calls = <<>>
           /\ last.status = "ok"
                  => \A k \in DOMAIN Emitted(last.payload, e.event) :
                         Emitted(last.payload, e.event)[k].doc.data
                             = e.event.data

DaskKeepsFilled ==
    \A key \in DOMAIN last.payload[1].doc.data :
        last.payload[1].doc.filled[key]
            => last.payload[2].doc.data[key] = last.payload[1].doc.data[key]

C14_FillIsIdempotent ==
    /\ (last.op = "read_partition" /\ ~last.raw)
           => \A k \in DOMAIN last.fills : FillKeepsFilled(last.fills[k])
    /\ last.op = "DaskFiller.event" => DaskKeepsFilled

(***************************************************************************)
(* documents_to_xarray, as BlueskyEventStream._open_dataset calls it.      *)
(* The data keys of a stream are FieldNames, the k-th field of an event    *)
(* being the one of the k-th name; all of them are external.  A dataset is *)
(* a function from variable names to columns, a column having one row per  *)
(* event.                                                                  *)
(***************************************************************************)
FieldNames == <<"a", "b">>

\* the place of a data key in the 'data' of an event
FieldIndex(key) == CHOOSE k \in DOMAIN FieldNames : FieldNames[k] = key

\* descriptor['data_keys'] of the descriptors of the stream
StreamDataKeys == [key \in Range(FieldNames) |-> [external |-> TRUE]]

\* config['data_keys'] of a device: configuration fields are not external
ConfigDataKeys(config) == [key \in config.data_keys |-> [external |-> FALSE]]

\* f'{object_name}:{key}', for the device and the fields of the model
Scoped(object_name, key) ==
    CASE object_name = "d" /\ key = "f" -> "d:f"
      [] object_name = "d" /\ key = "a" -> "d:a"
      [] OTHER -> "?"

\* keys, from the data keys of the first descriptor (lines 268-274)
SelectKeys(data_keys, include, exclude) ==
    IF include # <<>> THEN DOMAIN data_keys \cap Range(include)
    ELSE IF exclude # <<>> THEN DOMAIN data_keys \ Range(exclude)
    ELSE DOMAIN data_keys

\* keys, from the data keys of a configuration (lines 340-347): the exclude
\* branch tests "v not in include"
SelectConfigKeys(object_name, data_keys, include, exclude) ==
    IF include # <<>>
    THEN {key \in DOMAIN data_keys : Scoped(object_name, key) \in Range(include)}
    ELSE IF exclude # <<>>
    THEN {key \in DOMAIN data_keys : Scoped(object_name, key) \notin Range(include)}
    ELSE DOMAIN data_keys

\* the except branch of lines 287-296: the filler raised
\* UnresolvableForeignKeyError with key = r.key; the resource is looked up
\* and registered with all its datum pages, and filler('event', event) is
\* called once more, outside any try
XResolve(f, r, calls) ==
    IF r.key \notin HeldDatumIds
    THEN [status |-> "KeyError", event |-> r.doc, filler |-> f,
          calls |-> Append(calls, Call("lookup_resource_for_datum", r.key))]
    ELSE [status |-> IF FillerEvent(
                            FillerRegister(f, resource_uid_by_datum_id(r.key)),
                            r.doc).key = None
                     THEN "ok" ELSE "UnresolvableForeignKeyError",
          event |-> FillerEvent(
                        FillerRegister(f, resource_uid_by_datum_id(r.key)),
                        r.doc).doc,
          filler |-> FillerRegister(f, resource_uid_by_datum_id(r.key)),
          calls |-> calls \o
              <<Call("lookup_resource_for_datum", r.key),
                Call("get_resource", <<resource_uid_by_datum_id(r.key)>>),
                Call("get_datum_pages", <<resource_uid_by_datum_id(r.key)>>),
                Call("filler", <<"event", r.doc.uid>>)>>]

\* try: filler('event', event) except UnresolvableForeignKeyError: ...
XFillEvent(f, event, calls) ==
    IF FillerEvent(f, event).key = None
    THEN [status |-> "ok", event |-> FillerEvent(f, event).doc, filler |-> f,
          calls |-> Append(calls, Call("filler", <<"event", event.uid>>))]
    ELSE XResolve(f, FillerEvent(f, event),
                  Append(calls, Call("filler", <<"event", event.uid>>)))

RECURSIVE XFillEvents(_, _, _)
\* for event in events: the try/except above; st holds status, events,
\* filler and calls
XFillEvents(events, k, st) ==
    IF k > Len(events) \/ st.status # "ok" THEN st
    ELSE XFillEvents(events, k + 1,
             [status |-> XFillEvent(st.filler, events[k], st.calls).status,
              events |-> Append(st.events,
                                XFillEvent(st.filler, events[k], st.calls).event),
              filler |-> XFillEvent(st.filler, events[k], st.calls).filler,
              calls |-> XFillEvent(st.filler, events[k], st.calls).calls])

\* the columns of the event data: one per key of keys, one row per event
XDataArrays(keys, events) ==
    [key \in keys |->
        [k \in DOMAIN events |-> events[k].data[FieldIndex(key)]]]

\* the configuration values taken as they are, one row each
XConfigArrays_Untiled(config, keys, n) ==
    [v \in {Scoped(config.object_name, key) : key \in keys} |->
        <<config.data[CHOOSE key \in keys :
                          Scoped(config.object_name, key) = v]>>]

\* numpy.tile(config['data'][key], (len(times),)): the columns of the
\* configuration fields, under their scoped names
XConfigArrays(config, keys, n) ==
    [v \in {Scoped(config.object_name, key) : key \in keys} |->
        [k \in 1..n |->
            config.data[CHOOSE key \in keys :
                            Scoped(config.object_name, key) = v]]]

RECURSIVE XConfigLoop(_, _, _, _, _, _)
\* for object_name, config in descriptor['configuration'].items(): the loop
\* assigns data_keys and keys, the names the event data are selected by
XConfigLoop(configuration, j, n, include, exclude, loc) ==
    IF j > Len(configuration) THEN loc
    ELSE XConfigLoop(
             configuration, j + 1, n, include, exclude,
             [data_keys |-> ConfigDataKeys(configuration[j]),
              keys |-> SelectConfigKeys(configuration[j].object_name,
                                        ConfigDataKeys(configuration[j]),
                                        include, exclude),
              data_arrays |->
                  XConfigArrays(configuration[j],
                                SelectConfigKeys(
                                    configuration[j].object_name,
                                    ConfigDataKeys(configuration[j]),
                                    include, exclude), n)
                  @@ loc.data_arrays])

\* data_arrays['seq_num'] and data_arrays['uid']
XSeqNumAndUid(events) ==
    [v \in {"seq_num", "uid"} |->
        [k \in DOMAIN events |->
            IF v = "uid" THEN events[k].uid ELSE events[k].seq_num]]

\* datasets.append(xarray.Dataset(data_vars=data_arrays)), loc being the
\* names as the configuration loop left them
XAppendDataset(st, descriptor, events, loc, calls, f) ==
    [status |-> "ok", calls |-> calls, filler |-> f,
     data_keys |-> loc.data_keys, keys |-> loc.keys,
     datasets |-> Append(st.datasets,
                         [descriptor |-> descriptor.uid,
                          data_vars |-> XSeqNumAndUid(events)
                                        @@ loc.data_arrays])]

\* lines 298-372 for one descriptor whose events were filled as far as
\* they had to be
XBuild(st, descriptor, include, exclude, filled) ==
    IF filled.status # "ok"
    THEN [st EXCEPT !.status = filled.status, !.calls = filled.calls,
                    !.filler = filled.filler]
    ELSE IF \E key \in st.keys : key \notin Range(FieldNames)
    THEN [st EXCEPT !.status = "KeyError", !.calls = filled.calls,
                    !.filler = filled.filler]
    ELSE XAppendDataset(
             st, descriptor, filled.events,
             XConfigLoop(descriptor.configuration, 1, Len(filled.events),
                         include, exclude,
                         [data_keys |-> st.data_keys, keys |-> st.keys,
                          data_arrays |-> XDataArrays(st.keys, filled.events)]),
             filled.calls, filled.filler)

\* one turn of "for descriptor in descriptor_docs" (lines 278-372)
XDescriptor(st, descriptor, events, include, exclude) ==
    IF st.status # "ok" THEN st
    ELSE IF events = <<>>
    THEN [st EXCEPT !.calls = Append(@, Call("get_event_pages",
                                             <<descriptor.uid>>))]
    ELSE IF \E key \in st.keys : st.data_keys[key].external
    THEN XBuild(st, descriptor, include, exclude,
                XFillEvents(events, 1,
                    [status |-> "ok", events |-> <<>>, filler |-> st.filler,
                     calls |-> st.calls \o
                         <<Call("get_event_pages", <<descriptor.uid>>),
                           Call("filler", <<"descriptor", descriptor.uid>>)>>]))
    ELSE XBuild(st, descriptor, include, exclude,
                [status |-> "ok", events |-> events, filler |-> st.filler,
                 calls |-> Append(st.calls, Call("get_event_pages",
                                                 <<descriptor.uid>>))])

RECURSIVE XDescriptorLoop(_, _, _, _, _, _)
\* for descriptor in descriptor_docs; pages[d] is what get_event_pages
\* gives for the d-th descriptor
XDescriptorLoop(docs, pages, d, include, exclude, st) ==
    IF d > Len(docs) THEN st
    ELSE XDescriptorLoop(
             docs, pages, d + 1, include, exclude,
             XDescriptor(st, docs[d], flatten_event_page_gen(pages[d]),
                         include, exclude))

XCheckedLate(include, exclude, st) ==
    IF include # <<>> /\ exclude # <<>>
    THEN [status |-> "ValueError", calls |-> st.calls, filler |-> st.filler,
          datasets |-> <<>>]
    ELSE st

\* include and exclude checked when the datasets are there
documents_to_xarray_CheckedLate(docs, pages, f, include, exclude) ==
    XCheckedLate(
        include, exclude,
        XDescriptorLoop(
            docs, pages, 1, include, exclude,
            [status |-> "ok", calls |-> <<>>, filler |-> f,
             data_keys |-> docs[1].data_keys,
             keys |-> SelectKeys(docs[1].data_keys, include, exclude),
             datasets |-> <<>>]))

\* documents_to_xarray(descriptor_docs = docs, ..., include, exclude) for a
\* stream of at least one descriptor; the datasets are those handed to
\* xarray.merge
documents_to_xarray(docs, pages, f, include, exclude) ==
    IF include # <<>> /\ exclude # <<>>
    THEN [status |-> "ValueError", calls |-> <<>>, filler |-> f,
          datasets |-> <<>>]
    ELSE XDescriptorLoop(
             docs, pages, 1, include, exclude,
             [status |-> "ok", calls |-> <<>>, filler |-> f,
              data_keys |-> docs[1].data_keys,
              keys |-> SelectKeys(docs[1].data_keys, include, exclude),
              datasets |-> <<>>])

(***************************************************************************)
(* The streams _open_dataset is called on.                                 *)
(***************************************************************************)
\* the 'data' columns of the events of a stream: a datum id per data key
StreamEventData == { <<R1A, R1B>>, <<R1A, D3>>, <<R1Z, D3>> }

\* the events of the d-th descriptor of a stream, one per entry of datas,
\* those of a later descriptor at later times
StreamEvents(d, datas) ==
    [k \in DOMAIN datas |->
        [uid |-> EventUids[d][k], time |-> (d - 1) * MaxStreamEvents + k,
         seq_num |-> k,
         descriptor |-> DescriptorUids[d], data |-> datas[k],
         filled |-> [key \in DOMAIN datas[k] |-> FALSE]]]

\* the configuration of the d-th descriptor: device "d" with the fields
\* named, each of value d
StreamConfiguration(d, fields) ==
    IF fields = {} THEN <<>>
    ELSE <<[object_name |-> "d", data_keys |-> fields,
            data |-> [key \in fields |-> d]]>>

\* the fields a configuration of the model can have; "a" is also the name
\* of a data key
ConfigFieldSets == { {}, {"f"}, {"f", "a"} }

StreamDescriptor(d, fields) ==
    [uid |-> DescriptorUids[d], data_keys |-> StreamDataKeys,
     configuration |-> StreamConfiguration(d, fields)]

\* the values of include and of exclude
Selections == { <<>>, <<"a">>, <<"d:f">> }

\* get_event_pages(descriptor_uid): the events in one page, if there are any
OnePage(events) == IF events = <<>> THEN <<>> ELSE <<events>>

\* the streams of n descriptors
Streams(n) ==
    {[descriptor_docs |-> [d \in 1..n |-> StreamDescriptor(d, c[d])],
      event_pages |-> [d \in 1..n |-> OnePage(StreamEvents(d, e[d]))],
      include |-> inc, exclude |-> exc,
      filler |-> [resource_cache |-> {}, datum_cache |-> {}]] :
        c \in [1..n -> ConfigFieldSets],
        e \in [1..n -> UNION {[1..m -> StreamEventData] :
                                 m \in 0..MaxStreamEvents}],
        inc \in Selections, exc \in Selections}

\* a stream whose dataset was not opened
InitStream ==
    /\ InitRun
    /\ InitNoMerge
    /\ InitNoRemote
    /\ InitNoCall
    /\ \E n \in DOMAIN DescriptorUids : stream \in Streams(n)
    /\ ds = [status |-> "unset"]

\* BlueskyEventStream._open_dataset()
OpenDataset ==
    /\ ds.status = "unset"
    /\ stream.descriptor_docs # <<>>
    /\ \E r \in {documents_to_xarray(stream.descriptor_docs, stream.event_pages,
                                     stream.filler, stream.include,
                                     stream.exclude)} :
           /\ ds' = [status |-> r.status, calls |-> r.calls,
                     datasets |-> r.datasets]
           /\ stream' = [stream EXCEPT !.filler = r.filler]
    /\ UNCHANGED runvars
    /\ UNCHANGED mergevars
    /\ UNCHANGED remotevars
    /\ UNCHANGED callvars

NextStream == OpenDataset

SpecStream == InitStream /\ [][NextStream]_vars

(***************************************************************************)
(* Claims on documents_to_xarray.                                          *)
(***************************************************************************)
\* _open_dataset has returned or raised
Opened == ds.status # "unset"

\* the events of the d-th descriptor of the stream, as the store holds them
EventsOf(d) == flatten_event_page_gen(stream.event_pages[d])

\* every datum the events of the stream refer to is in the store
AllDatumsHeld ==
    \A d \in DOMAIN stream.descriptor_docs :
        \A k \in DOMAIN EventsOf(d) :
            Range(EventsOf(d)[k].data) \subseteq HeldDatumIds

\* C15: when every datum the events refer to exists in the store, the
\* references of an event are resolved one after the other, the event being
\* retried until it is filled: no unresolved-reference error leaves
\* documents_to_xarray
C15_ResolvedInTurn ==
    (Opened /\ AllDatumsHeld) => ds.status # "UnresolvableForeignKeyError"

\* both include and exclude were given
BothGiven == stream.include # <<>> /\ stream.exclude # <<>>

\* the data keys of the first descriptor, filtered by include and exclude
FirstSelection ==
    SelectKeys(stream.descriptor_docs[1].data_keys, stream.include,
               stream.exclude)

\* the variables of a dataset that are named as data keys of the stream are
\* those of the first selection
HasFirstSelection(dataset) ==
    DOMAIN dataset.data_vars \cap Range(FieldNames) = FirstSelection

\* C16: the data fields of every descriptor's dataset are the data keys of
\* the first descriptor filtered by include and exclude, whatever the
\* descriptors before it were: every dataset has them, and no KeyError is
\* raised for a field name when every datum exists
C16_FirstDescriptorSelects ==
    /\ ds.status = "KeyError" => ~AllDatumsHeld
    /\ ds.status = "ok" =>
           \A k \in DOMAIN ds.datasets : HasFirstSelection(ds.datasets[k])

\* some descriptor of the stream has events
SomeEvents == \E d \in DOMAIN stream.descriptor_docs : EventsOf(d) # <<>>

\* C17: with both include and exclude given, documents_to_xarray raises
\* ValueError before get_event_pages, the filler, get_resource,
\* lookup_resource_for_datum or get_datum_pages is called
C17_BothGivenRaisesFirst ==
    (Opened /\ BothGiven) => (ds.status = "ValueError" /\ ds.calls = <<>>)

\* both were given for a stream that has events to fetch and to fill
C17_Witness ==
    /\ Opened
    /\ BothGiven
    /\ SomeEvents
    /\ ds.status = "ValueError"

\* the d-th descriptor of the stream
DescriptorOf(dataset) ==
    CHOOSE d \in DOMAIN stream.descriptor_docs :
        stream.descriptor_docs[d].uid = dataset.descriptor

\* the configuration fields of the d-th descriptor under their namespaced
\* names
ScopedConfigNames(d) ==
    UNION {{Scoped(stream.descriptor_docs[d].configuration[j].object_name, key) :
               key \in stream.descriptor_docs[d].configuration[j].data_keys} :
           j \in DOMAIN stream.descriptor_docs[d].configuration}

\* the configuration variables of a dataset are the configuration fields of
\* its descriptor that include lists, or that exclude does not list
ConfigVarsAsListed(dataset) ==
    DOMAIN dataset.data_vars \cap {"d:f", "d:a"} =
        IF stream.include # <<>>
        THEN ScopedConfigNames(DescriptorOf(dataset)) \cap Range(stream.include)
        ELSE ScopedConfigNames(DescriptorOf(dataset)) \ Range(stream.exclude)

\* C18: include and exclude are allow and deny lists for the configuration
\* fields under their namespaced names: an excluded 'd:f' is absent, an
\* included 'd:f' is present and the configuration fields not included are
\* absent
C18_ListsActOnConfiguration ==
    ds.status = "ok" =>
        \A k \in DOMAIN ds.datasets : ConfigVarsAsListed(ds.datasets[k])

\* a namespaced configuration field is selected: listed by include if
\* include is given, else not listed by exclude
ConfigSelected(v) ==
    IF stream.include # <<>> THEN v \in Range(stream.include)
    ELSE v \notin Range(stream.exclude)

\* the variable v of the dataset has one row per event of the d-th
\* descriptor, each row being the value val
TiledOver(dataset, d, v, val) ==
    /\ v \in DOMAIN dataset.data_vars
    /\ Len(dataset.data_vars[v]) = Len(EventsOf(d))
    /\ \A row \in DOMAIN dataset.data_vars[v] : dataset.data_vars[v][row] = val

\* every selected configuration field of the d-th descriptor is tiled over
\* its events in the dataset
ConfigurationTiled(dataset, d) ==
    \A j \in DOMAIN stream.descriptor_docs[d].configuration :
        \A key \in stream.descriptor_docs[d].configuration[j].data_keys :
            ConfigSelected(
                Scoped(stream.descriptor_docs[d].configuration[j].object_name,
                       key))
                => TiledOver(dataset, d,
                       Scoped(stream.descriptor_docs[d].configuration[j].object_name,
                              key),
                       stream.descriptor_docs[d].configuration[j].data[key])

OpenRequest == [action |-> "open", partition |-> <<>>]

\* what intake.container.base.get_partition(url, http_args, source_id,
\* container, index) asks the server for
ReadRequest(index) == [action |-> "read", partition |-> index]

\* the documents the server answers a ReadRequest(index) with
ServedDocs(srv, index) ==
    [k \in 1..srv[index[1] + 1] |->
        [partition |-> index[1], row |-> k, raw |-> index[2]]]

\* the runs a server can hold
Servers ==
    UNION {[1..n -> 0..MaxPartitionDocs] : n \in 1..MaxPartitions}

\* the fields __init__ sets before _get_source_id()
RemoteBlank ==
    [_source_id |-> "None", npartitions |-> 0, bag |-> "None",
     parts |-> <<>>, raw_parts |-> <<>>]

\* _get_source_id() with _parse_open_response(response): r is the handle,
\* made the requests sent
RemoteGetSourceId(r, srv) ==
    IF r._source_id = "None"
    THEN [remote |-> [r EXCEPT !.npartitions = Len(srv),
                               !._source_id = "source"],
          made |-> <<OpenRequest>>]
    ELSE [remote |-> r, made |-> <<>>]

\* RemoteBlueskyRun.__init__
RemoteInit(srv) ==
    [remote |-> [RemoteGetSourceId(RemoteBlank, srv).remote
                     EXCEPT !.bag = "None"],
     made |-> RemoteGetSourceId(RemoteBlank, srv).made]

\* _load_metadata(): a dask.delayed get_partition for every index
RemoteLoadMetadata(r) ==
    IF r.bag = "None"
    THEN [r EXCEPT
            !.raw_parts = [k \in 1..r.npartitions |->
                              [partition |-> <<k - 1, TRUE>>]],
            !.parts = [k \in 1..r.npartitions |->
                          [partition |-> <<k - 1, FALSE>>]],
            !.bag = "bag"]
    ELSE r

\* part.compute(): the delayed get_partition runs
Compute(part, srv) ==
    [made |-> <<ReadRequest(part.partition)>>,
     result |-> ServedDocs(srv, part.partition)]

\* parts = self.raw_parts if raw else self.parts
PartsFor(r, raw) == IF raw THEN r.raw_parts ELSE r.parts

\* every part of the mode computed, as self.bag.compute() would
RemoteGetPartition_WholeBag(r, srv, index) ==
    [remote |-> RemoteLoadMetadata(r),
     made |-> [k \in 1..r.npartitions |->
                  ReadRequest(PartsFor(RemoteLoadMetadata(r),
                                       index[2])[k].partition)],
     result |-> ServedDocs(srv, index)]

\* _get_partition(index), index = (i, raw)
RemoteGetPartition(r, srv, index) ==
    [remote |-> RemoteLoadMetadata(r),
     made |-> Compute(PartsFor(RemoteLoadMetadata(r), index[2])[index[1] + 1],
                      srv).made,
     result |-> Compute(PartsFor(RemoteLoadMetadata(r), index[2])[index[1] + 1],
                        srv).result]

\* the next value of i in "for i in range(self.npartitions)"
NextIndex(g) == IF g.pc = "created" THEN 0 ELSE g.i + 1

\* for name, doc in self._get_partition((i, raw)): the partition fetched;
\* fetched is what _get_partition gave
CanonEnter(st, i, fetched) ==
    [remote |-> fetched.remote,
     canon |-> [st.canon EXCEPT !.pc = "inpart", !.i = i,
                                !.part = fetched.result, !.j = 0,
                                !.requested = @ \o fetched.made],
     made |-> st.made \o fetched.made]

RECURSIVE CanonicalAdvance(_, _)
\* one next() on the generator of canonical() / canonical_unfilled(): it
\* runs to its next yield, or to its end
CanonicalAdvance(st, srv) ==
    IF st.canon.pc = "inpart" /\ st.canon.j < Len(st.canon.part)
    THEN [st EXCEPT !.canon.j = @ + 1,
                    !.canon.yielded =
                        Append(@, st.canon.part[st.canon.j + 1])]
    ELSE IF NextIndex(st.canon) >= st.remote.npartitions
    THEN [st EXCEPT !.canon.pc = "done"]
    ELSE CanonicalAdvance(
             CanonEnter(st, NextIndex(st.canon),
                        RemoteGetPartition(st.remote, srv,
                            <<NextIndex(st.canon), st.canon.raw>>)),
             srv)

\* a RemoteBlueskyRun as its construction leaves it
InitRemote ==
    /\ InitRun
    /\ InitNoMerge
    /\ InitNoStream
    /\ InitNoCall
    /\ server \in Servers
    /\ remote = RemoteInit(server).remote
    /\ requests = RemoteInit(server).made
    /\ canon = [pc |-> "none"]
    /\ called = [op |-> "__init__", index |-> <<>>,
                 made |-> RemoteInit(server).made, direct |-> 0]

\* a call on the handle is over: c is what it gave
RemoteReturned(op, index, c, direct) ==
    /\ remote' = c.remote
    /\ requests' = requests \o c.made
    /\ called' = [op |-> op, index |-> index, made |-> c.made,
                  direct |-> direct]
    /\ UNCHANGED server
    /\ UNCHANGED runvars
    /\ UNCHANGED mergevars
    /\ UNCHANGED streamvars
    /\ UNCHANGED callvars

\* _get_source_id() called on the handle once more
GetSourceId ==
    /\ RemoteReturned("_get_source_id", <<>>,
                      RemoteGetSourceId(remote, server), called.direct)
    /\ UNCHANGED canon

\* _load_metadata()
LoadMetadata ==
    /\ RemoteReturned("_load_metadata", <<>>,
                      [remote |-> RemoteLoadMetadata(remote), made |-> <<>>],
                      called.direct)
    /\ UNCHANGED canon

\* _close()
Close ==
    /\ RemoteReturned("_close", <<>>,
                      [remote |-> [remote EXCEPT !.bag = "None"],
                       made |-> <<>>],
                      called.direct)
    /\ UNCHANGED canon

\* _get_partition((i, raw)) called by a user of the handle
GetPartition ==
    /\ called.direct < MaxDirectReads
    /\ \E i \in 0..(remote.npartitions - 1), raw \in BOOLEAN :
           RemoteReturned("_get_partition", <<i, raw>>,
                          RemoteGetPartition(remote, server, <<i, raw>>),
                          called.direct + 1)
    /\ UNCHANGED canon

\* canonical() (raw = FALSE) or canonical_unfilled() (raw = TRUE): the
\* generator is made, none of its code has run
RemoteCanonical ==
    /\ canon.pc = "none"
    /\ \E raw \in BOOLEAN :
           canon' = [pc |-> "created", raw |-> raw, i |-> 0, part |-> <<>>,
                     j |-> 0, requested |-> <<>>, yielded |-> <<>>]
    /\ called' = [called EXCEPT !.op = "canonical", !.index = <<>>,
                                !.made = <<>>]
    /\ UNCHANGED <<server, remote, requests>>
    /\ UNCHANGED runvars
    /\ UNCHANGED mergevars
    /\ UNCHANGED streamvars
    /\ UNCHANGED callvars

\* next() on the generator
RemoteCanonicalNext ==
    /\ canon.pc \in {"created", "inpart"}
    /\ \E c \in {CanonicalAdvance([remote |-> remote, canon |-> canon,
                                   made |-> <<>>], server)} :
           /\ RemoteReturned("next", <<>>, c, called.direct)
           /\ canon' = c.canon

NextRemote ==
    \/ GetSourceId
    \/ LoadMetadata
    \/ Close
    \/ GetPartition
    \/ RemoteCanonical
    \/ RemoteCanonicalNext

SpecRemote == InitRemote /\ [][NextRemote]_vars

\* the 'open' requests the server has received
OpenRequests == {k \in DOMAIN requests : requests[k].action = "open"}

\* nothing has consumed a partition yet
NothingConsumed == called.direct = 0 /\ canon.pc \in {"none", "created"}

RECURSIVE DocsBefore(_, _, _)
\* the documents of the partitions 0 .. n-1 of the server's run, in order
DocsBefore(srv, raw, n) ==
    IF n = 0 THEN <<>>
    ELSE DocsBefore(srv, raw, n - 1) \o ServedDocs(srv, <<n - 1, raw>>)

IsPrefix(s, t) == Len(s) <= Len(t) /\ SubSeq(t, 1, Len(s)) = s

\* the generator has asked for the partitions 0, 1, ... in its mode, one
\* request each, and every document of the partitions before the last one
\* asked for has been yielded
CanonicalIsLazy ==
    canon.pc \in {"inpart", "done"} =>
        /\ \A m \in DOMAIN canon.requested :
               canon.requested[m] = ReadRequest(<<m - 1, canon.raw>>)
        /\ IsPrefix(canon.yielded,
                    DocsBefore(server, canon.raw, Len(canon.requested)))
        /\ Len(canon.requested) > 0 =>
               IsPrefix(DocsBefore(server, canon.raw,
                                   Len(canon.requested) - 1),
                        canon.yielded)

\* C20: a RemoteBlueskyRun sends one 'open' request, at construction, and
\* none again while _source_id is set; it sends no partition request until
\* a partition is consumed; _get_partition((i, raw)) sends the one request
\* for partition i in the mode raw; the generator of canonical() asks for
\* partition i+1 only when all documents of partition i have been yielded
C20_RemoteIsLazy ==
    /\ Cardinality(OpenRequests) = 1
    /\ NothingConsumed => requests = <<OpenRequest>>
    /\ called.op = "_get_partition"
           => called.made = <<ReadRequest(called.index)>>
    /\ CanonicalIsLazy

\* canonical() has run to its end over several partitions, the first of
\* them with documents, on a handle that was closed and whose
\* _get_partition was called as well
C20_Witness ==
    /\ canon.pc = "done"
    /\ ~canon.raw
    /\ Len(canon.requested) > 1
    /\ server[1] > 0
    /\ Len(canon.yielded) > 1
    /\ called.direct > 0
    /\ called.op = "_close"

(***************************************************************************)
(* The operations a run-level handle does not support.                     *)
(***************************************************************************)
\* the methods asked of a run-level handle
RunLevelMethods == {"read", "to_dask", "search"}

\* the methods of RunLevelMethods the body of class BlueskyRun defines:
\* read and to_dask, both a raise of NotImplementedError
BlueskyRunDefines == {"read", "to_dask"}

\* the methods of RunLevelMethods the body of class RemoteBlueskyRun
\* defines: read, to_dask and search, each a raise of NotImplementedError
RemoteBlueskyRunDefines == {"read", "to_dask", "search"}

\* a call of method on a BlueskyRun: a method the class does not define is
\* the one of its base class intake.catalog.Catalog, which is run
BlueskyRunCall(method) ==
    IF method \in BlueskyRunDefines
    THEN [status |-> "NotImplementedError", calls |-> <<>>]
    ELSE [status |-> "Catalog." \o method, calls |-> <<>>]

\* a call of method on a RemoteBlueskyRun
RemoteBlueskyRunCall(method) ==
    IF method \in RemoteBlueskyRunDefines
    THEN [status |-> "NotImplementedError", made |-> <<>>]
    ELSE [status |-> "RemoteCatalog." \o method, made |-> <<>>]

\* run.read(), run.to_dask() or run.search(...) on the BlueskyRun
RunLevelCall ==
    /\ \E method \in RunLevelMethods :
           last' = [NoResult(method) EXCEPT
                       !.status = BlueskyRunCall(method).status,
                       !.calls = BlueskyRunCall(method).calls]
    /\ UNCHANGED <<document_cache, filler, run>>
    /\ UNCHANGED mergevars
    /\ UNCHANGED streamvars
    /\ UNCHANGED callvars
    /\ UNCHANGED remotevars

\* read(), to_dask() or search() on the RemoteBlueskyRun
RemoteRunLevelCall ==
    /\ \E method \in RunLevelMethods :
           called' = [op |-> method, index |-> <<>>,
                      made |-> RemoteBlueskyRunCall(method).made,
                      direct |-> called.direct,
                      status |-> RemoteBlueskyRunCall(method).status]
    /\ requests' = requests \o called'.made
    /\ UNCHANGED <<server, remote, canon>>
    /\ UNCHANGED runvars
    /\ UNCHANGED mergevars
    /\ UNCHANGED streamvars
    /\ UNCHANGED callvars

\* a store that receives descriptors and the stop, a proxy that is loaded
\* and closed, the run-level methods being called on both handles
NextRunLevel ==
    \/ Descriptor
    \/ Stop
    \/ LoadMetadata
    \/ Close
    \/ RunLevelCall
    \/ RemoteRunLevelCall

SpecRunLevel == InitRemote /\ [][NextRunLevel]_vars

\* C21: on a run-level handle read(), to_dask() and search() each fail at
\* once with NotImplementedError, no query of the document store and no
\* request to the server being made, on the BlueskyRun as on the
\* RemoteBlueskyRun
C21_RunLevelRefused ==
    /\ last.op \in RunLevelMethods
           => (last.status = "NotImplementedError" /\ last.calls = <<>>)
    /\ called.op \in RunLevelMethods
           => (called.status = "NotImplementedError" /\ called.made = <<>>)

(***************************************************************************)
(* MongoMetadataStoreCatalog: the catalog of the runs of a run_start        *)
(* collection, its entries and its search.  A Mongo query is                *)
(* [kind |-> "empty"] for {}, [kind |-> "eq", field, value] for            *)
(* {field: value} and [kind |-> "and", args] for {'$and': args}.  A name    *)
(* handed to __getitem__ is a string, [type |-> "str", text], or an         *)
(* integer, [type |-> "int", val].                                          *)
(***************************************************************************)
RunUids == <<"u1", "u2", "u3", "u4">>

\* the run_start collections: the k-th run started at time k
RunStartCollections ==
    UNION {{ {[uid |-> RunUids[k], time |-> k, scan_id |-> sc[k],
               plan_name |-> pl[k], _id |-> "oid"] : k \in 1..n} :
             sc \in [1..n -> {1, 2}], pl \in [1..n -> {"scan", "count"}]} :
           n \in 0..MaxRuns}

EmptyQuery == [kind |-> "empty"]

Eq(field, value) == [kind |-> "eq", field |-> field, value |-> value]

And(args) == [kind |-> "and", args |-> args]

\* the queries handed to search and to the constructor
UserQueries == {EmptyQuery, Eq("plan_name", "scan"), Eq("scan_id", 1)}

\* bool(query) of Python: a dict is true when it is not empty
Truthy(query) == query.kind # "empty"

RECURSIVE Matches(_, _)
\* whether the collection's find(query) selects doc
Matches(doc, query) ==
    CASE query.kind = "empty" -> TRUE
      [] query.kind = "eq" -> doc[query.field] = query.value
      [] query.kind = "and" ->
             \A k \in DOMAIN query.args : Matches(doc, query.args[k])

RECURSIVE SortDescending(_)
\* sort=[('time', pymongo.DESCENDING)] over documents of different times
SortDescending(docs) ==
    IF docs = {} THEN <<>>
    ELSE <<CHOOSE doc \in docs : \A other \in docs : other.time <= doc.time>>
         \o SortDescending(
                docs \ {CHOOSE doc \in docs :
                            \A other \in docs : other.time <= doc.time})

\* collection.find(query).sort('time', DESCENDING) as a list
Find(coll, query) == SortDescending({doc \in coll : Matches(doc, query)})

\* cursor.limit(n): n = 0 is no limit, a negative n is the limit -n, the
\* answer coming in a single batch
Limit(docs, n) ==
    IF n = 0 THEN docs
    ELSE SubSeq(docs, 1, Min(IF n < 0 THEN -n ELSE n, Len(docs)))

\* Entries.keys(): list(catalog)
EntryKeys(cat) ==
    [k \in DOMAIN Find(cat.run_start, cat.query) |->
        Find(cat.run_start, cat.query)[k].uid]

\* the texts int() accepts, with their values
IntTexts == {"-1", "1"}

IntOfText(text) == IF text = "-1" THEN -1 ELSE 1

\* try: name = int(name) except ValueError: pass
IntOrSame(name) ==
    IF name.type = "str" /\ name.text \in IntTexts
    THEN [type |-> "int", val |-> IntOfText(name.text)]
    ELSE name

\* *_, run_start_doc = cursor  and  run_start_doc, = cursor: the unpacking
\* raises ValueError when the cursor has too few or too many documents
UnpackLast(docs) ==
    IF docs = <<>> THEN [status |-> "ValueError"]
    ELSE [status |-> "ok", uid |-> docs[Len(docs)].uid]

UnpackOne(docs) ==
    IF Len(docs) # 1 THEN [status |-> "ValueError"]
    ELSE [status |-> "ok", uid |-> docs[1].uid]

\* find_one(query), then "if run_start_doc is None: raise KeyError(name)"
FindOneOrKeyError(docs) ==
    IF docs = <<>> THEN [status |-> "KeyError"]
    ELSE [status |-> "ok", uid |-> docs[1].uid]

\* the branch of __getitem__ for a name that is not an integer
FindOne(cat, name) ==
    FindOneOrKeyError(
        Find(cat.run_start, And(<<cat.query, Eq("uid", name.text)>>)))

\* Entries.__getitem__(name), name as int() left it
GetItemOf(cat, name) ==
    IF name.type = "int"
    THEN IF name.val < 0
         THEN UnpackLast(Limit(Find(cat.run_start, cat.query), name.val))
         ELSE UnpackOne(Limit(Find(cat.run_start,
                                   And(<<cat.query,
                                         Eq("scan_id", name.val)>>)), 1))
    ELSE FindOne(cat, name)

\* Entries.__getitem__(name)
GetItem(cat, name) == GetItemOf(cat, IntOrSame(name))

\* search() keeping only the new query
SearchQuery_NewOnly(carried, query) == query

\* the query of the catalog search(query) returns:
\* if self._query: query = {'$and': [self._query, query]}
SearchQuery(carried, query) ==
    IF Truthy(carried) THEN And(<<carried, query>>) ELSE query

\* MongoMetadataStoreCatalog(uri, query=query): self._query = query or {}
NewCatalog(coll, query) ==
    [fn |-> "catalog", run_start |-> coll,
     query |-> IF Truthy(query) THEN query ELSE EmptyQuery]

\* the names handed to __getitem__: uids, negative indices, scan numbers,
\* and integers as text
UserNames ==
    {[type |-> "str", text |-> t] : t \in Range(RunUids) \cup IntTexts}
    \cup {[type |-> "int", val |-> v] : v \in (-(MaxRuns + 1))..(-1) \cup {1, 2}}

\* a catalog over a collection, made with a query or with none; searched
\* lists the queries it was made and searched with
InitCatalog ==
    /\ InitRun
    /\ InitNoMerge
    /\ InitNoStream
    /\ InitNoRemote
    /\ \E coll \in RunStartCollections, query \in UserQueries :
           given = [NewCatalog(coll, query) EXCEPT !.fn = "catalog"]
                   @@ [searched |-> <<query>>]
    /\ got = [status |-> "unset", op |-> "none"]

\* a call on what is given leaves all else alone
CallFrame ==
    /\ UNCHANGED runvars
    /\ UNCHANGED mergevars
    /\ UNCHANGED streamvars
    /\ UNCHANGED remotevars

\* catalog = catalog.search(query), and list(catalog) before and after
CatalogSearch ==
    /\ Len(given.searched) <= MaxSearches
    /\ \E query \in UserQueries :
           /\ given' = NewCatalog(given.run_start,
                                  SearchQuery(given.query, query))
                        @@ [searched |-> Append(given.searched, query)]
           /\ got' = [op |-> "search", status |-> "ok", query |-> query,
                      before |-> EntryKeys(given), keys |-> EntryKeys(given')]
    /\ CallFrame

\* catalog[name]
CatalogGetItem ==
    /\ \E name \in UserNames :
           got' = [op |-> "getitem", name |-> name] @@ GetItem(given, name)
    /\ UNCHANGED given
    /\ CallFrame

NextCatalog == CatalogSearch \/ CatalogGetItem

SpecCatalog == InitCatalog /\ [][NextCatalog]_vars

\* a document satisfies a query of UserQueries
Satisfies(doc, query) ==
    query = EmptyQuery \/ doc[query.field] = query.value

\* the runs that satisfy every query the catalog was made and searched with
Narrowed ==
    {doc \in given.run_start :
        \A k \in DOMAIN given.searched : Satisfies(doc, given.searched[k])}

\* the name identifies a run of the catalog: as a uid, as the -n-th index
\* from the end, or as a scan number
Identifies(name) ==
    IF name.type = "str"
    THEN \E doc \in Narrowed : doc.uid = name.text
    ELSE IF name.val < 0 THEN Cardinality(Narrowed) >= -name.val
    ELSE \E doc \in Narrowed : doc.scan_id = name.val

\* C22: a lookup by an identifier that matches no run of the catalog raises
\* KeyError, the identifier being a uid, a negative index from the end
\* (also one past the number of runs) or a scan number
C22_NoMatchIsKeyError ==
    (got.op = "getitem" /\ ~Identifies(IntOrSame(got.name)))
        => got.status = "KeyError"

\* the time of the run of a uid of the collection
TimeOf(uid) == (CHOOSE doc \in given.run_start : doc.uid = uid).time

\* the keys are the narrowed runs, each once, the most recent first
KeysAreNarrowed(keys) ==
    /\ Range(keys) = {doc.uid : doc \in Narrowed}
    /\ \A i, j \in DOMAIN keys : i < j => TimeOf(keys[i]) > TimeOf(keys[j])

\* C23: search narrows progressively: the entries of a catalog got by one
\* search after another are the runs that satisfy each of the queries and
\* the query the first catalog carried, at every depth, and search({})
\* gives the entries of the catalog it was called on in the same order
C23_SearchNarrows ==
    got.op = "search" =>
        /\ KeysAreNarrowed(got.keys)
        /\ got.query = EmptyQuery => got.keys = got.before

\* a catalog made with a query and searched twice, the second time with
\* {}, that has some of the runs of the collection but not all
C23_Witness ==
    /\ got.op = "search"
    /\ given.searched = <<Eq("plan_name", "scan"), Eq("scan_id", 1), EmptyQuery>>
    /\ got.keys # <<>>
    /\ Len(got.keys) < Cardinality(given.run_start)

\* no call of lookup_resource_for_datum in the log is for a datum id that
\* contains '/'
NoLookupOfSlash(calls) ==
    \A k \in DOMAIN calls :
        calls[k].fn = "lookup_resource_for_datum" => ~HasSlash(calls[k].arg)

\* the places of the run: read_partition_unfilled and _fill
RunResolvesBySplit ==
    last.op = "read_partition" =>
        /\ NoLookupOfSlash(last.calls)
        /\ \A k \in DOMAIN last.fills : NoLookupOfSlash(last.fills[k].calls)

\* C24: wherever a datum id is resolved to its resource (BlueskyRun._fill,
\* BlueskyRun.read_partition_unfilled, documents_to_xarray), an id with a
\* '/' is resolved by its text before the first '/', with no call of
\* lookup_resource_for_datum; only an id without '/' is looked up
C24_SlashIdsAreSplit ==
    /\ RunResolvesBySplit
    /\ Opened => NoLookupOfSlash(ds.calls)

\* C25: at every point of either merge the heap holds at most one entry of
\* each source, hence no more entries than there are sources, however many
\* rows the sources have
C25_HeapHoldsOnePerSource ==
    /\ \A e, o \in heap : e.indx = o.indx => e = o
    /\ \A e \in heap : e.indx \in DOMAIN gens
    /\ Cardinality(heap) <= Len(gens)

\* a merge of two sources under way: an item was yielded, the heap holds
\* an entry of each source and a source has more to give
C25_Witness ==
    /\ pc = "loop"
    /\ Len(gens) = 2
    /\ out # <<>>
    /\ Cardinality(heap) = 2
    /\ \E i \in DOMAIN iters : pos[i] <= Len(iters[i])

(***************************************************************************)
(* extract_shape(descriptor, key).  object_keys is the sequence of the     *)
(* devices of the descriptor in the order of the dict, each with the data  *)
(* keys it lists; configuration has the 'data' of each of these devices.   *)
(***************************************************************************)
\* the declared shapes: up to three entries
DeclaredShapes == UNION {[1..n -> {0, 2, 3}] : n \in 0..3}

DeviceNames == <<"det1", "det2">>

\* the 'data' of a configuration, with num_images or without
ConfigurationData ==
    {[exposure |-> 1], [exposure |-> 1, num_images |-> 5],
     [exposure |-> 1, num_images |-> 7]}

\* the descriptors of n devices with the data key "img" of shape shape
ShapeDescriptors(n) ==
    {[data_keys |-> [img |-> [shape |-> shape]],
      object_keys |-> [j \in 1..n |->
                          [object_name |-> DeviceNames[j],
                           data_keys |-> IF lists[j] THEN {"img", "x"}
                                         ELSE {"x"}]],
      configuration |-> [j \in 1..n |-> [data |-> data[j]]]] :
        shape \in DeclaredShapes, lists \in [1..n -> BOOLEAN],
        data \in [1..n -> ConfigurationData]}

RECURSIVE FirstListing(_, _, _)
\* for object_name, data_keys in object_keys.items(): if key in data_keys:
\* break -- the place of the device the loop breaks at, 0 when it does not
FirstListing(object_keys, key, j) ==
    IF j > Len(object_keys) THEN 0
    ELSE IF key \in object_keys[j].data_keys THEN j
    ELSE FirstListing(object_keys, key, j + 1)

\* config['data'].get('num_images', -1)
GetNumImages(data) ==
    IF "num_images" \in DOMAIN data THEN data["num_images"] ELSE -1

\* the broken shape with num_images put first and nothing else changed
FixedShape_Unswapped(descriptor, key, j) ==
    IF j = 0 THEN [status |-> "RuntimeError"]
    ELSE [status |-> "ok",
          shape |-> <<GetNumImages(descriptor.configuration[j].data),
                      descriptor.data_keys[key].shape[1],
                      descriptor.data_keys[key].shape[2]>>]

\* the branch for a shape (x, y, 0), j being the place of the device found
FixedShape(descriptor, key, j) ==
    IF j = 0 THEN [status |-> "RuntimeError"]
    ELSE [status |-> "ok",
          shape |-> <<GetNumImages(descriptor.configuration[j].data),
                      descriptor.data_keys[key].shape[2],
                      descriptor.data_keys[key].shape[1]>>]

\* extract_shape(descriptor, key)
extract_shape(descriptor, key) ==
    IF /\ Len(descriptor.data_keys[key].shape) = 3
       /\ descriptor.data_keys[key].shape[3] = 0
    THEN FixedShape(descriptor, key,
                    FirstListing(descriptor.object_keys, key, 1))
    ELSE [status |-> "ok", shape |-> descriptor.data_keys[key].shape]

\* a descriptor and a key extract_shape is to be called with
InitShape ==
    /\ InitRun
    /\ InitNoMerge
    /\ InitNoStream
    /\ InitNoRemote
    /\ \E n \in 0..Len(DeviceNames) : \E descriptor \in ShapeDescriptors(n) :
           given = [fn |-> "extract_shape", descriptor |-> descriptor,
                    key |-> "img"]
    /\ got = [status |-> "unset"]

\* the call of extract_shape
ExtractShape ==
    /\ given.fn = "extract_shape"
    /\ got.status = "unset"
    /\ got' = extract_shape(given.descriptor, given.key)
    /\ UNCHANGED given
    /\ CallFrame

NextShape == ExtractShape

SpecShape == InitShape /\ [][NextShape]_vars

\* the declared shape of the key
Declared == given.descriptor.data_keys[given.key].shape

\* the devices of the descriptor that list the key
Listing ==
    {j \in DOMAIN given.descriptor.object_keys :
        given.key \in given.descriptor.object_keys[j].data_keys}

\* the shape has exactly three entries, the last being 0
IsBroken(shape) == Len(shape) = 3 /\ shape[3] = 0

\* C26: extract_shape returns the declared shape unchanged unless it has
\* exactly three entries, the last 0; for (x, y, 0) it returns
\* (num_images, y, x), num_images read from the configuration data of the
\* device that lists the field, -1 when that has no num_images; it raises
\* RuntimeError when no device lists the field
C26_ShapeIsRepaired ==
    (given.fn = "extract_shape" /\ got.status # "unset") =>
        /\ ~IsBroken(Declared) => got = [status |-> "ok", shape |-> Declared]
        /\ (IsBroken(Declared) /\ Listing = {}) => got.status = "RuntimeError"
        /\ (IsBroken(Declared) /\ Listing # {}) =>
               /\ got.status = "ok"
               /\ Len(got.shape) = 3
               /\ got.shape[2] = Declared[2]
               /\ got.shape[3] = Declared[1]
               /\ \E j \in Listing :
                      got.shape[1] =
                          IF "num_images" \in
                                 DOMAIN given.descriptor.configuration[j].data
                          THEN given.descriptor.configuration[j].data.num_images
                          ELSE -1

\* a shape (x, y, 0) with x and y different, the field listed by the
\* second device only, whose configuration has num_images
C26_Witness ==
    /\ given.fn = "extract_shape"
    /\ got.status = "ok"
    /\ IsBroken(Declared)
    /\ Declared[1] # Declared[2]
    /\ Listing = {2}
    /\ got.shape[1] > 0

(***************************************************************************)
(* RunCatalog._load: the stream entries of a run, made from the            *)
(* descriptors of the run in the order of their time.                      *)
(***************************************************************************)
StreamNames == {"primary", "baseline", "monitor"}

\* what event_descriptor_collection.find({'run_start': uid}, sort=[('time',
\* ASCENDING)]) can give: the k-th descriptor is of time k
DescriptorCursors ==
    UNION {{[k \in 1..n |-> [uid |-> k, time |-> k, name |-> names[k]]] :
               names \in [1..n -> StreamNames]} :
           n \in 0..MaxDescriptors}

RECURSIVE GroupBy(_, _, _)
\* itertools.groupby(cursor, key=lambda d: d.get('name')): a new group
\* starts wherever the key differs from the one before; groups is the
\* sequence of [key, docs] so far, k the place of the next document
GroupBy(cursor, k, groups) ==
    IF k > Len(cursor) THEN groups
    ELSE IF groups # <<>> /\ groups[Len(groups)].key = cursor[k].name
    THEN GroupBy(cursor, k + 1,
                 [groups EXCEPT ![Len(groups)].docs = Append(@, cursor[k])])
    ELSE GroupBy(cursor, k + 1,
                 Append(groups, [key |-> cursor[k].name, docs |-> <<cursor[k]>>]))

RECURSIVE LoadEntries(_, _, _)
\* for stream_name, event_descriptor_docs in streams:
\*     self._entries[stream_name] = LocalCatalogEntry(args=...)
\* an entry being the event_descriptor_docs of its args
LoadEntries(streams, j, entries) ==
    IF j > Len(streams) THEN entries
    ELSE LoadEntries(streams, j + 1,
                     (streams[j].key :> streams[j].docs) @@ entries)

\* RunCatalog._load() on a run with the descriptors of the cursor and the
\* run_stop found, None when there is none
RunCatalogLoad(cursor, run_stop_doc) ==
    [status |-> "ok",
     metadata |-> [start |-> StartUid,
                   stop |-> IF run_stop_doc = NoDoc THEN NoDoc
                            ELSE Pop_id(run_stop_doc)],
     entries |-> LoadEntries(GroupBy(cursor, 1, <<>>), 1, <<>>)]

\* a run whose catalog is to be loaded
InitRunCatalog ==
    /\ InitRun
    /\ InitNoMerge
    /\ InitNoStream
    /\ InitNoRemote
    /\ \E cursor \in DescriptorCursors, stop \in {NoDoc, StopDoc} :
           given = [fn |-> "RunCatalog._load", cursor |-> cursor,
                    run_stop_doc |-> stop]
    /\ got = [status |-> "unset"]

\* RunCatalog._load()
RunCatalogLoaded ==
    /\ given.fn = "RunCatalog._load"
    /\ got.status = "unset"
    /\ got' = RunCatalogLoad(given.cursor, given.run_stop_doc)
    /\ UNCHANGED given
    /\ CallFrame

NextRunCatalog == RunCatalogLoaded

SpecRunCatalog == InitRunCatalog /\ [][NextRunCatalog]_vars

\* the descriptors of the cursor that carry the stream name, in their order
DescriptorsNamed(name) ==
    SelectSeq(given.cursor, LAMBDA doc : doc.name = name)

\* C27: after RunCatalog._load the entry of each stream holds all the
\* descriptors of the run that carry its name, in whatever time order the
\* descriptors of different streams are interleaved; none is lost
C27_EntriesHoldAllDescriptors ==
    (given.fn = "RunCatalog._load" /\ got.status = "ok") =>
        /\ DOMAIN got.entries = {given.cursor[k].name : k \in DOMAIN given.cursor}
        /\ \A name \in DOMAIN got.entries :
               got.entries[name] = DescriptorsNamed(name)

(***************************************************************************)
(* The stream entries of BlueskyRun._load and the dataset                  *)
(* BlueskyEventStream._open_dataset builds for an entry.  A descriptor     *)
(* written by an old bluesky has no 'name'.                                *)
(***************************************************************************)
\* the descriptor with its 'name', or without when name is "none"
Named(descriptor, name) ==
    IF name = "none" THEN descriptor ELSE descriptor @@ [name |-> name]

\* the runs of n descriptors, without configuration: the descriptors and
\* the event pages of each
NamedRuns(n) ==
    {[fn |-> "BlueskyRun._load",
      descriptors |-> [d \in 1..n |-> Named(StreamDescriptor(d, {}), names[d])],
      event_pages |-> [d \in 1..n |-> OnePage(StreamEvents(d, e[d]))]] :
        names \in [1..n -> {"none", "primary", "baseline"}],
        e \in [1..n -> UNION {[1..m -> StreamEventData] :
                                 m \in 0..MaxStreamEvents}]}

\* doc.get('name', 'primary')
NameOrPrimary(doc) == IF "name" \in DOMAIN doc THEN doc.name ELSE "primary"

\* doc.get('name') == stream_name, for a stream name that is a string:
\* None equals none
NameIs(doc, stream_name) == "name" \in DOMAIN doc /\ doc.name = stream_name

RECURSIVE DescriptorsByName(_, _, _)
\* for doc in self._descriptors:
\*     descriptors_by_name[doc.get('name', 'primary')].append(doc)
DescriptorsByName(descriptors, k, by_name) ==
    IF k > Len(descriptors) THEN by_name
    ELSE DescriptorsByName(
             descriptors, k + 1,
             IF NameOrPrimary(descriptors[k]) \in DOMAIN by_name
             THEN [by_name EXCEPT ![NameOrPrimary(descriptors[k])] =
                      Append(@, descriptors[k])]
             ELSE by_name @@ (NameOrPrimary(descriptors[k]) :> <<descriptors[k]>>))

\* the places of the descriptors _open_dataset keeps for stream_name
KeptPlaces(descriptors, stream_name) ==
    SelectSeq([d \in DOMAIN descriptors |-> d],
              LAMBDA d : NameIs(descriptors[d], stream_name))

\* documents_to_xarray for the descriptors at the places kept; without
\* descriptors there is nothing to fetch and nothing to merge
DatasetOfPlaces(descriptors, pages, f, kept) ==
    IF kept = <<>>
    THEN [status |-> "ok", calls |-> <<>>, filler |-> f, datasets |-> <<>>]
    ELSE documents_to_xarray([k \in DOMAIN kept |-> descriptors[kept[k]]],
                             [k \in DOMAIN kept |-> pages[kept[k]]],
                             f, <<>>, <<>>)

\* BlueskyEventStream._open_dataset() of the entry stream_name
open_dataset(descriptors, pages, f, stream_name) ==
    DatasetOfPlaces(descriptors, pages, f,
                    KeptPlaces(descriptors, stream_name))

\* a run whose entries are to be loaded
InitNamedRun ==
    /\ InitRun
    /\ InitNoMerge
    /\ InitNoStream
    /\ InitNoRemote
    /\ \E n \in DOMAIN DescriptorUids : given \in NamedRuns(n)
    /\ got = [status |-> "unset"]

\* run._load(), then the dataset of one of its entries is opened with a
\* filler that has registered nothing
OpenEntry ==
    /\ given.fn = "BlueskyRun._load"
    /\ got.status = "unset"
    /\ \E stream_name \in DOMAIN DescriptorsByName(given.descriptors, 1, <<>>) :
       \E r \in {open_dataset(given.descriptors, given.event_pages,
                              [resource_cache |-> {}, datum_cache |-> {}],
                              stream_name)} :
           got' = [status |-> r.status, datasets |-> r.datasets,
                   stream_name |-> stream_name,
                   entries |-> DescriptorsByName(given.descriptors, 1, <<>>)]
    /\ UNCHANGED given
    /\ CallFrame

NextNamedRun == OpenEntry

SpecNamedRun == InitNamedRun /\ [][NextNamedRun]_vars

\* the descriptor is among those of the entry 'primary'
InPrimaryEntry(descriptor) ==
    /\ "primary" \in DOMAIN got.entries
    /\ \E k \in DOMAIN got.entries["primary"] :
           got.entries["primary"][k].uid = descriptor.uid

\* the datasets have one of the descriptor, with a row for each of its
\* events
InDatasets(descriptor, events) ==
    \E k \in DOMAIN got.datasets :
        /\ got.datasets[k].descriptor = descriptor.uid
        /\ got.datasets[k].data_vars["uid"] =
               [j \in DOMAIN events |-> events[j].uid]

\* C28: a descriptor without 'name' belongs to the stream 'primary' in
\* _load and in _open_dataset alike: the entry 'primary' holds it, and the
\* dataset built for that entry has its events
C28_NamelessIsPrimary ==
    (given.fn = "BlueskyRun._load" /\ got.status = "ok") =>
        \A d \in DOMAIN given.descriptors :
            "name" \notin DOMAIN given.descriptors[d] =>
                /\ InPrimaryEntry(given.descriptors[d])
                /\ (got.stream_name = "primary"
                    /\ flatten_event_page_gen(given.event_pages[d]) # <<>>)
                       => InDatasets(given.descriptors[d],
                                     flatten_event_page_gen(given.event_pages[d]))

(***************************************************************************)
(* to_event_pages and to_datum_pages: a cursor of documents is cut into    *)
(* pages of page_size documents.  A page holds its documents by column.    *)
(***************************************************************************)
\* the longest cursor
MaxCursorDocs == 3

\* the largest page_size
MaxPageSize == 3

\* the values of page_size: None (no value), or one integer
PageSizes == {None} \cup {<<n>> : n \in (0 - 1)..MaxPageSize}

\* the datum documents of resource "r1", as many as ids
DatumDocs(ids) ==
    [k \in DOMAIN ids |->
        [datum_id |-> ids[k], resource |-> "r1", datum_kwargs |-> <<k>>]]

\* the cursors of at most n events of one descriptor
EventCursors(n) ==
    UNION {{StreamEvents(1, datas) : datas \in [1..m -> StreamEventData]} :
           m \in 0..n}

\* the cursors of at most n datums of one resource
DatumCursors(n) ==
    UNION {{DatumDocs(ids) : ids \in [1..m -> {R1A, R1B}]} : m \in 0..n}

\* the keys of the first of the rows, each with its values row after row
TransposeListOfDicts(rows) ==
    [key \in DOMAIN rows[1] |-> [j \in DOMAIN rows |-> rows[j][key]]]

\* the values of one row of the columns
RowOf(columns, j) == [key \in DOMAIN columns |-> columns[key][j]]

\* event_model.pack_event_page(*events)
pack_event_page(events) ==
    [descriptor |-> events[Len(events)].descriptor,
     uid |-> [j \in DOMAIN events |-> events[j].uid],
     time |-> [j \in DOMAIN events |-> events[j].time],
     seq_num |-> [j \in DOMAIN events |-> events[j].seq_num],
     data |-> TransposeListOfDicts([j \in DOMAIN events |-> events[j].data]),
     filled |-> TransposeListOfDicts(
                    [j \in DOMAIN events |-> events[j].filled])]

\* event_model.unpack_event_page(event_page)
unpack_event_page(page) ==
    [j \in DOMAIN page.uid |->
        [descriptor |-> page.descriptor, uid |-> page.uid[j],
         time |-> page.time[j], seq_num |-> page.seq_num[j],
         data |-> RowOf(page.data, j), filled |-> RowOf(page.filled, j)]]

\* event_model.pack_datum_page(*datums)
pack_datum_page(datums) ==
    [resource |-> datums[Len(datums)].resource,
     datum_id |-> [j \in DOMAIN datums |-> datums[j].datum_id],
     datum_kwargs |-> TransposeListOfDicts(
                          [j \in DOMAIN datums |-> datums[j].datum_kwargs])]

\* event_model.unpack_datum_page(datum_page)
unpack_datum_page(page) ==
    [j \in DOMAIN page.datum_id |->
        [resource |-> page.resource, datum_id |-> page.datum_id[j],
         datum_kwargs |-> RowOf(page.datum_kwargs, j)]]

\* list(itertools.islice(cursor, page_size)) of a cursor that has yielded
\* at documents: the next page_size of them, all the rest for None
NextResult(cursor, at, page_size) ==
    IF page_size = None THEN SubSeq(cursor, at + 1, Len(cursor))
    ELSE SubSeq(cursor, at + 1, Min(at + page_size[1], Len(cursor)))

\* the page the decorator of fn packs the documents of result into
PackPage(fn, result) ==
    IF fn = "to_event_pages" THEN pack_event_page(result)
    ELSE pack_datum_page(result)

\* the documents of a page got from fn
UnpackPage(fn, page) ==
    IF fn = "to_event_pages" THEN unpack_event_page(page)
    ELSE unpack_datum_page(page)

\* get_event_pages / get_datum_pages is called on a cursor
InitPages ==
    /\ InitRun
    /\ InitNoMerge
    /\ InitNoStream
    /\ InitNoRemote
    /\ given \in [fn : {"to_event_pages"},
                  cursor : EventCursors(MaxCursorDocs),
                  page_size : PageSizes]
               \cup [fn : {"to_datum_pages"},
                     cursor : DatumCursors(MaxCursorDocs),
                     page_size : PageSizes]
    /\ got = [status |-> "unset"]

\* one turn of "while True": islice raises ValueError for a negative
\* page_size; a result that is not empty is packed and yielded, an empty
\* one ends the generator
GetPages ==
    /\ given.fn \in {"to_event_pages", "to_datum_pages"}
    /\ got.status \in {"unset", "yielded"}
    /\ LET at == IF got.status = "unset" THEN 0 ELSE got.pos
           pages == IF got.status = "unset" THEN <<>> ELSE got.pages
           result == NextResult(given.cursor, at, given.page_size)
       IN  got' = IF given.page_size # None /\ given.page_size[1] < 0
                  THEN [status |-> "ValueError"]
                  ELSE IF result # <<>>
                  THEN [status |-> "yielded", pos |-> at + Len(result),
                        pages |-> Append(pages, PackPage(given.fn, result))]
                  ELSE [status |-> "StopIteration", pos |-> at,
                        pages |-> pages]
    /\ UNCHANGED given
    /\ CallFrame

NextPages == GetPages

SpecPages == InitPages /\ [][NextPages]_vars

\* the documents of the pages yielded, page after page
Flattened ==
    Concat([p \in DOMAIN got.pages |-> UnpackPage(given.fn, got.pages[p])])

\* the number of documents of the p-th page yielded
PageLen(p) ==
    Len(UnpackPage(given.fn, got.pages[p]))

\* C29: when the pages of a cursor have all been yielded, their documents
\* in order are the documents of the cursor; no page is empty, and every
\* page but the last has page_size documents
C29_PagesGroupWithoutLoss ==
    (given.fn \in {"to_event_pages", "to_datum_pages"}
     /\ got.status = "StopIteration") =>
        /\ Flattened = given.cursor
        /\ \A p \in DOMAIN got.pages :
               /\ PageLen(p) > 0
               /\ (p < Len(got.pages) /\ given.page_size # None)
                      => PageLen(p) = given.page_size[1]

(***************************************************************************)
(* MongoInsertCallback.__call__: the document is copied, the copy is       *)
(* sanitized and inserted.  Dictionaries are objects of a heap, so that    *)
(* two documents may hold the same nested dictionary.                      *)
(***************************************************************************)
\* the deepest nesting of dictionaries in a document
MaxNesting == 2

\* the keys of a dictionary, in the order of its items
KeyOrder == <<"value", "data">>

\* the values that are no dictionary
Leaves ==
    {[kind |-> "numpy.generic", value |-> 1],
     [kind |-> "numpy.ndarray", value |-> <<1, 2>>],
     [kind |-> "int", value |-> 1],
     [kind |-> "list", value |-> <<1, 2>>]}

\* the dictionary at place id of the heap
DictAt(id) == [kind |-> "dict", value |-> id]

\* the heaps of n dictionaries, each with a leaf under 'value', each but
\* the last with the next one under 'data'; the document is the first
DocumentHeaps(n) ==
    {[id \in 1..n |->
         IF id < n THEN [value |-> leaf[id], data |-> DictAt(id + 1)]
         ELSE [value |-> leaf[id]]] :
     leaf \in [1..n -> Leaves]}

\* _sanitize_numpy(val)
sanitize_numpy(val) ==
    IF val.kind = "numpy.generic" THEN [kind |-> "int", value |-> val.value]
    ELSE IF val.kind = "numpy.ndarray"
    THEN [kind |-> "list", value |-> val.value]
    ELSE val

RECURSIVE ApplyItems(_, _, _)
\* the loop of _apply_to_dict_recursively(d, f) from the k-th item on, d
\* being the dictionary at id: a value with items is gone through in
\* place, d[key] is set to what that call returns, which is None, and then
\* to f(val)
ApplyItems(h, id, k) ==
    IF k > Len(KeyOrder) THEN h
    ELSE IF KeyOrder[k] \notin DOMAIN h[id] THEN ApplyItems(h, id, k + 1)
    ELSE LET key == KeyOrder[k]
             val == h[id][key]
             inner == IF val.kind = "dict"
                      THEN [ApplyItems(h, val.value, 1) EXCEPT
                                ![id][key] = [kind |-> "NoneType",
                                              value |-> 0]]
                      ELSE h
         IN  ApplyItems([inner EXCEPT ![id][key] = sanitize_numpy(val)],
                        id, k + 1)

\* _apply_to_dict_recursively(d, _sanitize_numpy)
apply_to_dict_recursively(h, id) == ApplyItems(h, id, 1)

\* doc.copy(): a new dictionary with the items of the one at id
CopyOf(h, id) == Append(h, h[id])

\* insert_one(doc) gives the document inserted an '_id'
InsertOne(h, id) ==
    [h EXCEPT ![id] = @ @@ [_id |-> [kind |-> "ObjectId", value |-> 0]]]

\* MongoInsertCallback.__call__(name, doc), doc being the dictionary at id
MongoInsert(h, id) ==
    InsertOne(apply_to_dict_recursively(CopyOf(h, id), Len(h) + 1),
              Len(h) + 1)

\* a document to insert
InitInsert ==
    /\ InitRun
    /\ InitNoMerge
    /\ InitNoStream
    /\ InitNoRemote
    /\ \E n \in 1..(MaxNesting + 1) :
           given \in [fn : {"MongoInsertCallback.__call__"},
                      name : {"start", "event"},
                      doc : {1},
                      heap : DocumentHeaps(n)]
    /\ got = [status |-> "unset"]

\* callback(name, doc)
Insert ==
    /\ given.fn = "MongoInsertCallback.__call__"
    /\ got.status = "unset"
    /\ got' = [status |-> "inserted", collection |-> given.name,
               sanitized_doc |-> Len(given.heap) + 1,
               heap |-> MongoInsert(given.heap, given.doc)]
    /\ UNCHANGED given
    /\ CallFrame

NextInsert == Insert

SpecInsert == InitInsert /\ [][NextInsert]_vars

RECURSIVE NumpyWithin(_, _)
\* a numpy value is held by the dictionary at id or by one nested in it
NumpyWithin(h, id) ==
    \E key \in DOMAIN h[id] :
        \/ h[id][key].kind \in {"numpy.generic", "numpy.ndarray"}
        \/ /\ h[id][key].kind = "dict"
           /\ NumpyWithin(h, h[id][key].value)

\* C30: after the call the dictionaries of the caller's document are, at
\* every level, what they were, numpy values included, and the document
\* inserted holds no numpy value at any depth
C30_CallerDocumentUnchanged ==
    (given.fn = "MongoInsertCallback.__call__" /\ got.status = "inserted") =>
        /\ \A id \in DOMAIN given.heap : got.heap[id] = given.heap[id]
        /\ ~NumpyWithin(got.heap, got.sanitized_doc)

====
